---- MODULE Spec2Model ----
(***************************************************************************)
(* Borrow tracking of solana-account-view (src/account-view/src/lib.rs).   *)
(*                                                                         *)
(* The host serializes account records (struct Account) into the input    *)
(* buffer and hands the program AccountView values holding a raw pointer   *)
(* to a record; duplicate accounts give several views over one record.    *)
(* Ref / RefMut are the guarded handles; every handle holds a pointer to   *)
(* the borrow_state byte of the record it was acquired from.               *)
(***************************************************************************)
EXTENDS Integers, Sequences, FiniteSets, Bags, TLC

VARIABLES
    accounts,   \* record address -> struct Account (plus its trailing data)
    handles,    \* bag of the live Ref / RefMut values
    ret,        \* what the last call returned
    watch,      \* which history variable this run records; fixed by Init
    last,       \* history: the last call and the view it was made through
    chain,      \* history: the chain of the handle acquired last
    scen,       \* history: position in the scenario of section 8 on record 1
    serialized, \* history: the data_len the host serialized each record with
    exposed,    \* history: the greatest data_len each record has had so far
    outbound    \* the call last handed to sol_invoke_signed_c, <<>> when none

vars == <<accounts, handles, ret, watch, last, chain, scen, serialized, exposed,
          outbound>>

-----------------------------------------------------------------------------
(* Bounds of the model *)

\* live handles at any one time
MaxHandles == 7
\* transformations (map / filter_map) applied to one handle
MaxMaps == 1

-----------------------------------------------------------------------------
(* Program constants *)

LAMPORTS_SHIFT == 4
DATA_SHIFT == 0
LAMPORTS_MASK == 127
DATA_MASK == 247

\* size_of::<u64>(): the bytes a lamports handle views
U64_SIZE == 8

MAX_PERMITTED_DATA_INCREASE == 10240

\* a u32 is held as its bit 31 and its bits 0-30
U32(bit31, low) == [bit31 |-> bit31, low |-> low]

\* 1 << 31 and !SET_LEN_MASK
SET_LEN_MASK == U32(1, 0)
GET_LEN_MASK == U32(0, 2147483647)

-----------------------------------------------------------------------------
(* u8 arithmetic *)

Bit(x, i) == (x \div (2 ^ i)) % 2

\* a & b on u8
BitAnd(a, b) ==
    Bit(a, 0) * Bit(b, 0)
    + 2 * Bit(a, 1) * Bit(b, 1)
    + 4 * Bit(a, 2) * Bit(b, 2)
    + 8 * Bit(a, 3) * Bit(b, 3)
    + 16 * Bit(a, 4) * Bit(b, 4)
    + 32 * Bit(a, 5) * Bit(b, 5)
    + 64 * Bit(a, 6) * Bit(b, 6)
    + 128 * Bit(a, 7) * Bit(b, 7)

\* a | b on u8
BitOr(a, b) == a + b - BitAnd(a, b)

\* a + b on u8 (wrapping)
AddU8(a, b) == (a + b) % 256

\* a - b on u8 (wrapping)
SubU8(a, b) == (a + 256 - b) % 256

\* usize::saturating_sub
saturating_sub(a, b) == IF a > b THEN a - b ELSE 0

\* length & SET_LEN_MASK: bit 31 alone
AndSetLenMask(length) == U32(length.bit31 * SET_LEN_MASK.bit31, 0)

\* (length & GET_LEN_MASK) as usize: bits 0-30
AndGetLenMask(length) == length.low

\* (current_len as u32) | SET_LEN_MASK; the lengths of the model fit 31 bits
OrSetLenMask(current_len) ==
    U32(1, IF current_len <= GET_LEN_MASK.low THEN current_len
           ELSE current_len - GET_LEN_MASK.low - 1)

-----------------------------------------------------------------------------
(* The host's input: two records; the program is handed views A and B,     *)
(* duplicates of record 1                                                  *)

Records == {1, 2}
Views == {"A", "B"}

\* the record the host serialized each view's account into
HostRecord(v) == 1

\* the data bytes of every record at entry
HostData == <<0>>

\* the values the program writes through a RefMut
WriteValues == {0, 1}

\* the data_len a record can be serialized with when the program resizes it:
\* one byte, or more bytes than a program may add
HostLens == {1, MAX_PERMITTED_DATA_INCREASE + 1}

\* the lengths the program asks realloc for: nothing, a few bytes, and the
\* lengths at and just past the permitted increase over 0, 1 and 10241
NewLens ==
    {0, 1, 2,
     MAX_PERMITTED_DATA_INCREASE, MAX_PERMITTED_DATA_INCREASE + 1,
     MAX_PERMITTED_DATA_INCREASE + 2,
     2 * MAX_PERMITTED_DATA_INCREASE + 1, 2 * MAX_PERMITTED_DATA_INCREASE + 2}

\* the owners the program assigns
NewOwners == {2}

\* the bytes that follow a record (its data and the slack after it) are
\* followed at the addresses where a length in use puts a boundary and where
\* a handle writes; every operation treats the bytes between two of them alike
DataAddrs ==
    (0 .. MaxMaps)
        \cup {a \in UNION {{n - 1, n} : n \in NewLens \cup HostLens} : a >= 0}

\* impl From<*mut Account> for AccountView
From(p) == [raw |-> p]

\* mutant: view B is built over a copy of the record (record 2), not over
\* the record the host serialized
View_copy(v) == From(IF v = "B" THEN 2 ELSE HostRecord(v))

\* the AccountView values the entrypoint hands to the program
View(v) == From(HostRecord(v))

Account0(r) ==
    [ borrow_state      |-> 0,
      is_signer         |-> 0,
      is_writable       |-> 1,
      executable        |-> 0,
      original_data_len |-> U32(0, 0),
      key               |-> r,
      owner             |-> 1,
      lamports          |-> 1,
      data_len          |-> Len(HostData),
      data              |-> [i \in DataAddrs |->
                                IF i < Len(HostData) THEN HostData[i + 1] ELSE 0] ]

\* a record serialized with len bytes of data, every one of them 1; the
\* slack after the data is zero
AccountOfLen(r, len) ==
    [Account0(r) EXCEPT !.data_len = len,
                        !.data = [i \in DataAddrs |-> IF i < len THEN 1 ELSE 0]]

-----------------------------------------------------------------------------
(* Dry-run checks *)

check_borrow_lamports(v) ==
    LET borrow_state == accounts[View(v).raw].borrow_state IN
    IF BitAnd(borrow_state, 128) # 0 THEN "AccountBorrowFailed"
    ELSE IF BitAnd(borrow_state, 112) = 112 THEN "AccountBorrowFailed"
    ELSE "Ok"

\* mutant: any bit of the byte, data bits too, refuses the write of lamports
check_borrow_mut_lamports_anybit(v) ==
    LET borrow_state == accounts[View(v).raw].borrow_state IN
    IF borrow_state # 0 THEN "AccountBorrowFailed"
    ELSE "Ok"

check_borrow_mut_lamports(v) ==
    LET borrow_state == accounts[View(v).raw].borrow_state IN
    IF BitAnd(borrow_state, 240) # 0 THEN "AccountBorrowFailed"
    ELSE "Ok"

\* mutant: the limit of 7 reads is not checked
check_borrow_data_nolimit(v) ==
    LET borrow_state == accounts[View(v).raw].borrow_state IN
    IF BitAnd(borrow_state, 8) # 0 THEN "AccountBorrowFailed"
    ELSE "Ok"

check_borrow_data(v) ==
    LET borrow_state == accounts[View(v).raw].borrow_state IN
    IF BitAnd(borrow_state, 8) # 0 THEN "AccountBorrowFailed"
    ELSE IF BitAnd(borrow_state, 7) = 7 THEN "AccountBorrowFailed"
    ELSE "Ok"

\* mutant: only the write flag is checked, outstanding reads are not
check_borrow_mut_data_flagonly(v) ==
    LET borrow_state == accounts[View(v).raw].borrow_state IN
    IF BitAnd(borrow_state, 8) # 0 THEN "AccountBorrowFailed"
    ELSE "Ok"

check_borrow_mut_data(v) ==
    LET borrow_state == accounts[View(v).raw].borrow_state IN
    IF BitAnd(borrow_state, 15) # 0 THEN "AccountBorrowFailed"
    ELSE "Ok"

-----------------------------------------------------------------------------
(* Handles *)

\* pointer to the lamports field of record r
LamportsPtr(r) == [rec |-> r, field |-> "lamports", off |-> 0, len |-> U64_SIZE]

\* from_raw_parts(self.data_ptr(), self.data_len())
DataSlice(r) == [rec |-> r, field |-> "data", off |-> 0, len |-> accounts[r].data_len]

\* struct Ref: tag is borrow_shift
NewRef(value, state, borrow_shift) ==
    [kind |-> "Ref", value |-> value, state |-> state, tag |-> borrow_shift]

\* struct RefMut: tag is borrow_mask
NewRefMut(value, state, borrow_mask) ==
    [kind |-> "RefMut", value |-> value, state |-> state, tag |-> borrow_mask]

NoHandle == [kind |-> "none"]

Live == BagToSet(handles)

Add(b, h) == b (+) SetToBag({h})
Remove(b, h) == b (-) SetToBag({h})

SetBorrowState(r, b) == [accounts EXCEPT ![r].borrow_state = b]

\* the function a caller passes to map / filter_map: here |x| &x[1..]
Project(value) == [value EXCEPT !.off = @ + 1, !.len = @ - 1]

CanProject(h) == h.value.len >= 1 /\ h.value.off < MaxMaps

-----------------------------------------------------------------------------
(* History variables: they record, they never decide what the program    *)
(* does.  A run records the one that watch names.                          *)

Call(op, v) == [op |-> op, view |-> v]

ChainIdle ==
    [phase |-> "idle", pre |-> 0, cur |-> NoHandle, via |-> "-", declined |-> FALSE]

\* a handle was acquired through view v when the byte of its record was pre
ChainStart(h, v, pre) ==
    [phase |-> "live", pre |-> pre, cur |-> h,
     via |-> IF watch = "alias" THEN v ELSE "-", declined |-> FALSE]

\* handle h was consumed by a transformation that produced n
ChainMove(h, n) ==
    IF chain.phase = "live" /\ chain.cur = h
    THEN [chain EXCEPT !.cur = n]
    ELSE chain

\* a transformation declined and gave h back
ChainDecline(h) ==
    IF chain.phase = "live" /\ chain.cur = h
    THEN [chain EXCEPT !.declined = TRUE]
    ELSE chain

\* handle h was dropped: the chain is done, or another handle disturbed it
ChainDrop(h) ==
    IF chain.phase = "live" /\ chain.cur = h
    THEN [chain EXCEPT !.phase = "done"]
    ELSE ChainIdle

\* the scenario: 3 reads of data, a refused write of data, one read dropped,
\* a write of lamports, all on record 1 and with nothing in between
ScenStep(op, r, field) ==
    IF r = 1 /\ scen \in {0, 1, 2} /\ op = "try_borrow_data" THEN scen + 1
    ELSE IF r = 1 /\ scen = 3 /\ op = "try_borrow_mut_data" THEN 4
    ELSE IF r = 1 /\ scen = 4 /\ op = "Ref_drop" /\ field = "data" THEN 5
    ELSE IF r = 1 /\ scen = 5 /\ op = "try_borrow_mut_lamports" THEN 6
    ELSE IF accounts'[1].borrow_state = 0 THEN 0
    ELSE -1

TryOps ==
    {"try_borrow_lamports", "try_borrow_mut_lamports",
     "try_borrow_data", "try_borrow_mut_data"}

\* the denied call: via names the try_borrow_* call that was last refused
\* (phase "denied") until that same call returns Ok (phase "retried")
RetryStep(op) ==
    IF op \in TryOps /\ ret' = "AccountBorrowFailed"
    THEN [ChainIdle EXCEPT !.phase = "denied", !.via = op]
    ELSE IF chain.phase = "denied" /\ op = chain.via /\ ret' = "Ok"
    THEN [chain EXCEPT !.phase = "retried"]
    ELSE IF chain.phase = "denied" THEN chain
    ELSE ChainIdle

\* call op was made through view v (or on a handle) of record r, on field
Observe(op, v, r, field, newChain) ==
    /\ watch' = watch
    /\ serialized' = serialized
    /\ exposed' = exposed
    /\ outbound' = outbound
    /\ last' = IF watch \in {"last", "retry"} THEN Call(op, "-")
               ELSE IF watch = "alias" THEN Call(op, v)
               ELSE IF watch \in {"resize", "zero", "grow", "cpi"}
               THEN Call("handle", "-")
               ELSE last
    /\ chain' = IF watch \in {"chain", "alias"} THEN newChain
                ELSE IF watch = "retry" THEN RetryStep(op)
                ELSE chain
    /\ scen' = IF watch = "scen" THEN ScenStep(op, r, field) ELSE scen

\* realloc, close or assign was called through view v of record r
ObserveCall(op, v, r, args) ==
    /\ watch' = watch
    /\ serialized' = serialized
    /\ exposed' = IF watch = "grow" /\ accounts'[r].data_len > exposed[r]
                  THEN [exposed EXCEPT ![r] = accounts'[r].data_len]
                  ELSE exposed
    /\ outbound' = outbound
    /\ last' = IF watch \in {"last", "resize"} THEN Call(op, "-")
               ELSE IF watch = "alias" THEN Call(op, v)
               ELSE IF watch \in {"zero", "grow"}
               THEN [op |-> op, view |-> "-", args |-> args]
               ELSE last
    /\ chain' = chain
    /\ scen' = IF watch = "scen" THEN ScenStep(op, r, "data") ELSE scen

-----------------------------------------------------------------------------
(* Dry-run checks, as calls *)

call_check_borrow_lamports(v) ==
    /\ ret' = check_borrow_lamports(v)
    /\ UNCHANGED <<accounts, handles>>
    /\ Observe("check_borrow_lamports", v, HostRecord(v), "lamports", chain)

call_check_borrow_mut_lamports(v) ==
    /\ ret' = check_borrow_mut_lamports(v)
    /\ UNCHANGED <<accounts, handles>>
    /\ Observe("check_borrow_mut_lamports", v, HostRecord(v), "lamports", chain)

\* mutant: the dry-run check takes the read borrow it checked
call_check_borrow_data_acquires(v) ==
    /\ ret' = check_borrow_data(v)
    /\ accounts' = IF check_borrow_data(v) = "Ok"
                   THEN SetBorrowState(View(v).raw,
                            AddU8(accounts[View(v).raw].borrow_state, 1))
                   ELSE accounts
    /\ UNCHANGED handles
    /\ Observe("check_borrow_data", v, HostRecord(v), "data", chain)

call_check_borrow_data(v) ==
    /\ ret' = check_borrow_data(v)
    /\ UNCHANGED <<accounts, handles>>
    /\ Observe("check_borrow_data", v, HostRecord(v), "data", chain)

call_check_borrow_mut_data(v) ==
    /\ ret' = check_borrow_mut_data(v)
    /\ UNCHANGED <<accounts, handles>>
    /\ Observe("check_borrow_mut_data", v, HostRecord(v), "data", chain)

-----------------------------------------------------------------------------
(* Checked accessors *)

\* mutant: the flag is set before the check, and stays set on the early return
Refused_flagged(op, v, field, res) ==
    /\ ret' = res
    /\ accounts' = SetBorrowState(View(v).raw,
            BitOr(accounts[View(v).raw].borrow_state,
                  IF field = "lamports" THEN 128 ELSE 8))
    /\ UNCHANGED handles
    /\ Observe(op, v, HostRecord(v), field, chain)

\* the early return of self.check_borrow_*()? : nothing is touched
Refused(op, v, field, res) ==
    /\ ret' = res
    /\ UNCHANGED <<accounts, handles>>
    /\ Observe(op, v, HostRecord(v), field, chain)

\* Ok(handle), the borrow_state byte of record r now being b
Acquired(op, v, r, b, h) ==
    /\ BagCardinality(handles) < MaxHandles
    /\ accounts' = SetBorrowState(r, b)
    /\ handles' = Add(handles, h)
    /\ ret' = "Ok"
    /\ Observe(op, v, HostRecord(v), h.value.field,
               ChainStart(h, v, accounts[r].borrow_state))

try_borrow_lamports(v) ==
    LET r == View(v).raw
        res == check_borrow_lamports(v)
    IN  IF res # "Ok"
        THEN Refused("try_borrow_lamports", v, "lamports", res)
        ELSE Acquired("try_borrow_lamports", v, r,
                    AddU8(accounts[r].borrow_state, 2 ^ LAMPORTS_SHIFT),
                    NewRef(LamportsPtr(r), r, LAMPORTS_SHIFT))

try_borrow_mut_lamports(v) ==
    LET r == View(v).raw
        res == check_borrow_mut_lamports(v)
    IN  IF res # "Ok"
        THEN Refused("try_borrow_mut_lamports", v, "lamports", res)
        ELSE Acquired("try_borrow_mut_lamports", v, r,
                    BitOr(accounts[r].borrow_state, 128),
                    NewRefMut(LamportsPtr(r), r, LAMPORTS_MASK))

try_borrow_data(v) ==
    LET r == View(v).raw
        res == check_borrow_data(v)
    IN  IF res # "Ok"
        THEN Refused("try_borrow_data", v, "data", res)
        ELSE Acquired("try_borrow_data", v, r,
                    AddU8(accounts[r].borrow_state, 1),
                    NewRef(DataSlice(r), r, DATA_SHIFT))

try_borrow_mut_data(v) ==
    LET r == View(v).raw
        res == check_borrow_mut_data(v)
    IN  IF res # "Ok"
        THEN Refused("try_borrow_mut_data", v, "data", res)
        ELSE Acquired("try_borrow_mut_data", v, r,
                    BitOr(accounts[r].borrow_state, 8),
                    NewRefMut(DataSlice(r), r, DATA_MASK))

-----------------------------------------------------------------------------
(* Drop *)

\* *self.state -= 1 << self.borrow_shift
Ref_released(b, h) == SubU8(b, 2 ^ h.tag)

\* mutant: the release of a write handle clears the whole byte
RefMut_released_clearsbyte(b, h) == 0

\* *self.state &= self.borrow_mask
RefMut_released(b, h) == BitAnd(b, h.tag)

\* mutant: the count is decremented without the shift of the sub-state
Ref_drop_noshift(h) ==
    /\ h \in Live
    /\ h.kind = "Ref"
    /\ accounts' = SetBorrowState(h.state, SubU8(accounts[h.state].borrow_state, 1))
    /\ handles' = Remove(handles, h)
    /\ ret' = "Ok"
    /\ Observe("Ref_drop", "-", h.state, h.value.field, ChainDrop(h))

\* mutant: the count is decremented twice
Ref_drop_twice(h) ==
    /\ h \in Live
    /\ h.kind = "Ref"
    /\ accounts' = SetBorrowState(h.state,
            SubU8(accounts[h.state].borrow_state, 2 * (2 ^ h.tag)))
    /\ handles' = Remove(handles, h)
    /\ ret' = "Ok"
    /\ Observe("Ref_drop", "-", h.state, h.value.field, ChainDrop(h))

\* impl Drop for Ref
Ref_drop(h) ==
    /\ h \in Live
    /\ h.kind = "Ref"
    /\ accounts' = SetBorrowState(h.state,
            Ref_released(accounts[h.state].borrow_state, h))
    /\ handles' = Remove(handles, h)
    /\ ret' = "Ok"
    /\ Observe("Ref_drop", "-", h.state, h.value.field, ChainDrop(h))

\* mutant: the release clears the whole byte
RefMut_drop_clearsbyte(h) ==
    /\ h \in Live
    /\ h.kind = "RefMut"
    /\ accounts' = SetBorrowState(h.state, 0)
    /\ handles' = Remove(handles, h)
    /\ ret' = "Ok"
    /\ Observe("RefMut_drop", "-", h.state, h.value.field, ChainDrop(h))

\* mutant: the handle goes, its write bit stays
RefMut_drop_keepsbit(h) ==
    /\ h \in Live
    /\ h.kind = "RefMut"
    /\ UNCHANGED accounts
    /\ handles' = Remove(handles, h)
    /\ ret' = "Ok"
    /\ Observe("RefMut_drop", "-", h.state, h.value.field, ChainDrop(h))

\* impl Drop for RefMut
RefMut_drop(h) ==
    /\ h \in Live
    /\ h.kind = "RefMut"
    /\ accounts' = SetBorrowState(h.state,
            RefMut_released(accounts[h.state].borrow_state, h))
    /\ handles' = Remove(handles, h)
    /\ ret' = "Ok"
    /\ Observe("RefMut_drop", "-", h.state, h.value.field, ChainDrop(h))

-----------------------------------------------------------------------------
(* Transformations: orig is wrapped in ManuallyDrop, so no Drop runs on it *)

\* mutant: orig is not wrapped in ManuallyDrop, its Drop runs as map returns
Ref_map_release(orig) ==
    /\ orig \in Live
    /\ orig.kind = "Ref"
    /\ accounts' = SetBorrowState(orig.state,
            SubU8(accounts[orig.state].borrow_state, 2 ^ orig.tag))
    /\ CanProject(orig)
    /\ LET new == NewRef(Project(orig.value), orig.state, orig.tag)
       IN  /\ handles' = Add(Remove(handles, orig), new)
           /\ Observe("Ref_map", "-", orig.state, orig.value.field,
                      ChainMove(orig, new))
    /\ ret' = "Ok"

Ref_map(orig) ==
    /\ orig \in Live
    /\ orig.kind = "Ref"
    /\ UNCHANGED accounts
    /\ CanProject(orig)
    /\ LET new == NewRef(Project(orig.value), orig.state, orig.tag)
       IN  /\ handles' = Add(Remove(handles, orig), new)
           /\ Observe("Ref_map", "-", orig.state, orig.value.field,
                      ChainMove(orig, new))
    /\ ret' = "Ok"

\* mutant: on Some the Drop of orig runs as filter_map returns
Ref_filter_map_release(orig, accept) ==
    /\ orig \in Live
    /\ orig.kind = "Ref"
    /\ IF accept
       THEN /\ accounts' = SetBorrowState(orig.state,
                    SubU8(accounts[orig.state].borrow_state, 2 ^ orig.tag))
            /\ CanProject(orig)
            /\ LET new == NewRef(Project(orig.value), orig.state, orig.tag)
               IN  /\ handles' = Add(Remove(handles, orig), new)
                   /\ Observe("Ref_filter_map", "-", orig.state, orig.value.field,
                              ChainMove(orig, new))
            /\ ret' = "Ok"
       ELSE /\ UNCHANGED accounts
            /\ handles' = Add(Remove(handles, orig), orig)
            /\ Observe("Ref_filter_map", "-", orig.state, orig.value.field,
                       ChainDecline(orig))
            /\ ret' = "Err"

Ref_filter_map(orig, accept) ==
    /\ orig \in Live
    /\ orig.kind = "Ref"
    /\ UNCHANGED accounts
    /\ IF accept
       THEN /\ CanProject(orig)
            /\ LET new == NewRef(Project(orig.value), orig.state, orig.tag)
               IN  /\ handles' = Add(Remove(handles, orig), new)
                   /\ Observe("Ref_filter_map", "-", orig.state, orig.value.field,
                              ChainMove(orig, new))
            /\ ret' = "Ok"
       ELSE /\ handles' = Add(Remove(handles, orig), orig)
            /\ Observe("Ref_filter_map", "-", orig.state, orig.value.field,
                       ChainDecline(orig))
            /\ ret' = "Err"

RefMut_map(orig) ==
    /\ orig \in Live
    /\ orig.kind = "RefMut"
    /\ UNCHANGED accounts
    /\ CanProject(orig)
    /\ LET new == NewRefMut(Project(orig.value), orig.state, orig.tag)
       IN  /\ handles' = Add(Remove(handles, orig), new)
           /\ Observe("RefMut_map", "-", orig.state, orig.value.field,
                      ChainMove(orig, new))
    /\ ret' = "Ok"

\* mutant: on None the Drop of orig runs, and orig is handed back all the same
RefMut_filter_map_dropsorig(orig, accept) ==
    /\ orig \in Live
    /\ orig.kind = "RefMut"
    /\ IF accept
       THEN /\ UNCHANGED accounts
            /\ CanProject(orig)
            /\ LET new == NewRefMut(Project(orig.value), orig.state, orig.tag)
               IN  /\ handles' = Add(Remove(handles, orig), new)
                   /\ Observe("RefMut_filter_map", "-", orig.state, orig.value.field,
                              ChainMove(orig, new))
            /\ ret' = "Ok"
       ELSE /\ accounts' = SetBorrowState(orig.state,
                    BitAnd(accounts[orig.state].borrow_state, orig.tag))
            /\ handles' = Add(Remove(handles, orig), orig)
            /\ Observe("RefMut_filter_map", "-", orig.state, orig.value.field,
                       ChainDecline(orig))
            /\ ret' = "Err"

RefMut_filter_map(orig, accept) ==
    /\ orig \in Live
    /\ orig.kind = "RefMut"
    /\ UNCHANGED accounts
    /\ IF accept
       THEN /\ CanProject(orig)
            /\ LET new == NewRefMut(Project(orig.value), orig.state, orig.tag)
               IN  /\ handles' = Add(Remove(handles, orig), new)
                   /\ Observe("RefMut_filter_map", "-", orig.state, orig.value.field,
                              ChainMove(orig, new))
            /\ ret' = "Ok"
       ELSE /\ handles' = Add(Remove(handles, orig), orig)
            /\ Observe("RefMut_filter_map", "-", orig.state, orig.value.field,
                       ChainDecline(orig))
            /\ ret' = "Err"

-----------------------------------------------------------------------------
(* Writes through a RefMut *)

\* impl DerefMut for RefMut: *h = x on lamports, h[0] = x on data
RefMut_deref_mut(h, x) ==
    /\ h \in Live
    /\ h.kind = "RefMut"
    /\ IF h.value.field = "lamports"
       THEN /\ h.value.off = 0
            /\ accounts' = [accounts EXCEPT ![h.value.rec].lamports = x]
       ELSE /\ h.value.len >= 1
            /\ accounts' = [accounts EXCEPT ![h.value.rec].data[h.value.off] = x]
    /\ ret' = "Ok"
    /\ UNCHANGED handles
    /\ Observe("RefMut_deref_mut", "-", h.state, h.value.field, chain)

-----------------------------------------------------------------------------
(* realloc *)

\* mutant: realloc refuses a record that is not writable
realloc_borrow_writable(v) ==
    IF accounts[View(v).raw].is_writable = 0 THEN "AccountBorrowFailed"
    ELSE check_borrow_mut_data(v)

\* mutant: realloc goes on without the exclusive borrow of the data
realloc_borrow_skipped(v) == "Ok"

\* let mut data = self.try_borrow_mut_data()?
realloc_borrow(v) == check_borrow_mut_data(v)

\* mutant: no early return for an unchanged length
SameLen_never(new_len, current_len) == FALSE

\* if new_len == current_len { return Ok(()) }
SameLen(new_len, current_len) == new_len = current_len

\* mutant: the field counts as set when its length bits are not all zero
LenIsSet_lowbits(r) == AndGetLenMask(accounts[r].original_data_len) # 0

\* the flag of original_data_len is set
LenIsSet(r) == AndSetLenMask(accounts[r].original_data_len) = SET_LEN_MASK

\* mutant: the increase is measured from the current length
OriginalLen_current(r) == accounts[r].data_len

\* let original_len = { ... }: the stored length, else the current one
OriginalLen(r) ==
    IF LenIsSet(r)
    THEN AndGetLenMask(accounts[r].original_data_len)
    ELSE accounts[r].data_len

\* mutant: the current length is stored by every realloc, set or not
Memoized_always(r) == OrSetLenMask(accounts[r].data_len)

\* original_data_len once original_len is computed: memoized when not set
Memoized(r) ==
    IF LenIsSet(r)
    THEN accounts[r].original_data_len
    ELSE OrSetLenMask(accounts[r].data_len)

\* mutant: the increase is not checked
TooLarge_unchecked(new_len, original_len) == FALSE

\* mutant: an increase of exactly MAX_PERMITTED_DATA_INCREASE is refused too
TooLarge_inclusive(new_len, original_len) ==
    saturating_sub(new_len, original_len) >= MAX_PERMITTED_DATA_INCREASE

\* new_len.saturating_sub(original_len) > MAX_PERMITTED_DATA_INCREASE
TooLarge(new_len, original_len) ==
    saturating_sub(new_len, original_len) > MAX_PERMITTED_DATA_INCREASE

\* mutant: the increase is zeroed whatever zero_init says
ZeroSpan_always(current_len, new_len, zero_init) ==
    LET len_increase == saturating_sub(new_len, current_len) IN
    IF len_increase > 0
    THEN {i \in DataAddrs : current_len <= i /\ i < current_len + len_increase}
    ELSE {}

\* mutant: the first byte of the increase is left out
ZeroSpan_skipsfirst(current_len, new_len, zero_init) ==
    LET len_increase == saturating_sub(new_len, current_len) IN
    IF zero_init /\ len_increase > 0
    THEN {i \in DataAddrs : current_len < i /\ i < current_len + len_increase}
    ELSE {}

\* the addresses the memset of realloc writes: len_increase bytes from
\* current_len when zero_init is set and the increase is positive
ZeroSpan(current_len, new_len, zero_init) ==
    LET len_increase == saturating_sub(new_len, current_len) IN
    IF zero_init /\ len_increase > 0
    THEN {i \in DataAddrs : current_len <= i /\ i < current_len + len_increase}
    ELSE {}

\* mutant: the whole of the new slice is zeroed
ZeroInit_fromstart(data, current_len, new_len, zero_init) ==
    IF zero_init /\ new_len > current_len
    THEN [i \in DOMAIN data |-> IF i < new_len THEN 0 ELSE data[i]]
    ELSE data

\* if zero_init { write_bytes(data.as_mut_ptr().add(current_len), 0, len_increase) }
ZeroInit(data, current_len, new_len, zero_init) ==
    [i \in DOMAIN data |->
        IF i \in ZeroSpan(current_len, new_len, zero_init) THEN 0 ELSE data[i]]

\* mutant: the write handle of realloc is forgotten, not dropped
DataDropped_leaked(r) == BitOr(accounts[r].borrow_state, 8)

\* the borrow_state byte once `data`, the RefMut of the call, is dropped
DataDropped(r) == BitAnd(BitOr(accounts[r].borrow_state, 8), DATA_MASK)

\* mutant: the new length is stored before the increase is checked
realloc_lenfirst(v, new_len, zero_init) ==
    LET r == View(v).raw
        res == realloc_borrow(v)
        current_len == accounts[r].data_len
    IN  /\ IF res # "Ok"
           THEN /\ ret' = res
                /\ UNCHANGED accounts
           ELSE IF SameLen(new_len, current_len)
           THEN /\ ret' = "Ok"
                /\ accounts' = [accounts EXCEPT ![r].borrow_state = DataDropped(r)]
           ELSE IF TooLarge(new_len, OriginalLen(r))
           THEN /\ ret' = "InvalidRealloc"
                /\ accounts' = [accounts EXCEPT
                        ![r].borrow_state = DataDropped(r),
                        ![r].original_data_len = Memoized(r),
                        ![r].data_len = new_len]
           ELSE /\ ret' = "Ok"
                /\ accounts' = [accounts EXCEPT
                        ![r].borrow_state = DataDropped(r),
                        ![r].original_data_len = Memoized(r),
                        ![r].data_len = new_len,
                        ![r].data = ZeroInit(@, current_len, new_len, zero_init)]
        /\ UNCHANGED handles
        /\ ObserveCall("realloc", v, r,
                [new_len |-> new_len, zero_init |-> zero_init,
                 current_len |-> current_len, data |-> accounts[r].data,
                 length |-> accounts[r].original_data_len,
                 zeroed |-> IF res = "Ok" /\ ~SameLen(new_len, current_len)
                                /\ ~TooLarge(new_len, OriginalLen(r))
                            THEN ZeroSpan(current_len, new_len, zero_init)
                            ELSE {}])

realloc(v, new_len, zero_init) ==
    LET r == View(v).raw
        res == realloc_borrow(v)
        current_len == accounts[r].data_len
    IN  /\ IF res # "Ok"
           THEN /\ ret' = res
                /\ UNCHANGED accounts
           ELSE IF SameLen(new_len, current_len)
           THEN /\ ret' = "Ok"
                /\ accounts' = [accounts EXCEPT ![r].borrow_state = DataDropped(r)]
           ELSE IF TooLarge(new_len, OriginalLen(r))
           THEN /\ ret' = "InvalidRealloc"
                /\ accounts' = [accounts EXCEPT
                        ![r].borrow_state = DataDropped(r),
                        ![r].original_data_len = Memoized(r)]
           ELSE /\ ret' = "Ok"
                /\ accounts' = [accounts EXCEPT
                        ![r].borrow_state = DataDropped(r),
                        ![r].original_data_len = Memoized(r),
                        ![r].data_len = new_len,
                        ![r].data = ZeroInit(@, current_len, new_len, zero_init)]
        /\ UNCHANGED handles
        /\ ObserveCall("realloc", v, r,
                [new_len |-> new_len, zero_init |-> zero_init,
                 current_len |-> current_len, data |-> accounts[r].data,
                 length |-> accounts[r].original_data_len,
                 zeroed |-> IF res = "Ok" /\ ~SameLen(new_len, current_len)
                                /\ ~TooLarge(new_len, OriginalLen(r))
                            THEN ZeroSpan(current_len, new_len, zero_init)
                            ELSE {}])

-----------------------------------------------------------------------------
(* close and assign, as built for target_os = "solana" *)

\* mutant: the span zeroed ends 8 bytes early, before data_len
close_unchecked_short(r) ==
    [accounts EXCEPT ![r].owner = 0, ![r].lamports = 0]

\* sol_memset_(self.data_ptr_mut().sub(48), 0, 48): owner, lamports, data_len
close_unchecked(r) ==
    [accounts EXCEPT ![r].owner = 0, ![r].lamports = 0, ![r].data_len = 0]

\* mutant: close makes no borrow check
close_unguarded(v) ==
    LET r == View(v).raw
    IN  /\ ret' = "Ok"
        /\ accounts' = close_unchecked(r)
        /\ UNCHANGED handles
        /\ ObserveCall("close", v, r, <<>>)

\* mutant: close also asks that the lamports are not borrowed
close_checkslamports(v) ==
    LET r == View(v).raw
        res == IF check_borrow_mut_data(v) # "Ok"
               THEN check_borrow_mut_data(v)
               ELSE check_borrow_mut_lamports(v)
    IN  /\ IF res # "Ok"
           THEN /\ ret' = res
                /\ UNCHANGED accounts
           ELSE /\ ret' = "Ok"
                /\ accounts' = close_unchecked(r)
        /\ UNCHANGED handles
        /\ ObserveCall("close", v, r, <<>>)

close(v) ==
    LET r == View(v).raw
        res == check_borrow_mut_data(v)
    IN  /\ IF res # "Ok"
           THEN /\ ret' = res
                /\ UNCHANGED accounts
           ELSE /\ ret' = "Ok"
                /\ accounts' = close_unchecked(r)
        /\ UNCHANGED handles
        /\ ObserveCall("close", v, r, <<>>)

\* mutant: assign leaves a record whose data is borrowed alone
assign_checked(v, new_owner) ==
    LET r == View(v).raw
    IN  /\ accounts' = IF check_borrow_mut_data(v) = "Ok"
                       THEN [accounts EXCEPT ![r].owner = new_owner]
                       ELSE accounts
        /\ ret' = "Ok"
        /\ UNCHANGED handles
        /\ ObserveCall("assign", v, r, <<new_owner>>)

assign(v, new_owner) ==
    LET r == View(v).raw
    IN  /\ accounts' = [accounts EXCEPT ![r].owner = new_owner]
        /\ ret' = "Ok"
        /\ UNCHANGED handles
        /\ ObserveCall("assign", v, r, <<new_owner>>)

-----------------------------------------------------------------------------

\* the program's entry, the history variable w being recorded and the
\* borrow_state byte of record 1 being b
Entry(w, b) ==
    /\ accounts = [r \in Records |->
            IF r = 1 THEN [Account0(r) EXCEPT !.borrow_state = b] ELSE Account0(r)]
    /\ handles = EmptyBag
    /\ ret = "Ok"
    /\ watch = w
    /\ last = Call("entry", "-")
    /\ chain = ChainIdle
    /\ scen = IF b = 0 THEN 0 ELSE -1
    /\ serialized = [r \in Records |-> Len(HostData)]
    /\ exposed = [r \in Records |-> Len(HostData)]
    /\ outbound = <<>>

\* the program's entry with records serialized with len bytes of data
EntryOfLen(w, len) ==
    /\ accounts = [r \in Records |-> AccountOfLen(r, len)]
    /\ handles = EmptyBag
    /\ ret = "Ok"
    /\ watch = w
    /\ last = Call("entry", "-")
    /\ chain = ChainIdle
    /\ scen = 0
    /\ serialized = [r \in Records |-> len]
    /\ exposed = [r \in Records |-> len]
    /\ outbound = <<>>

\* the host hands over every record with borrow_state = 0
Init == Entry("last", 0)
InitResize == \E len \in HostLens : EntryOfLen("resize", len)
InitZero == \E len \in HostLens : EntryOfLen("zero", len)
InitGrow == \E len \in HostLens : EntryOfLen("grow", len)

\* the program's entry with a record that the transaction marked writable
\* (1) or read-only (0)
InitFlags ==
    \E writable \in {0, 1} :
        /\ accounts = [r \in Records |->
                [AccountOfLen(r, Len(HostData)) EXCEPT !.is_writable = writable]]
        /\ handles = EmptyBag
        /\ ret = "Ok"
        /\ watch = "zero"
        /\ last = Call("entry", "-")
        /\ chain = ChainIdle
        /\ scen = 0
        /\ serialized = [r \in Records |-> Len(HostData)]
        /\ exposed = [r \in Records |-> Len(HostData)]
        /\ outbound = <<>>
InitChain == Entry("chain", 0)
InitScen == Entry("scen", 0)
InitAlias == Entry("alias", 0)
InitRetry == Entry("retry", 0)

\* the accessors on every value of the byte, whoever left it there
InitByte == \E b \in 0 .. 255 : Entry("last", b)

Next ==
    \/ \E v \in Views : call_check_borrow_lamports(v)
    \/ \E v \in Views : call_check_borrow_mut_lamports(v)
    \/ \E v \in Views : call_check_borrow_data(v)
    \/ \E v \in Views : call_check_borrow_mut_data(v)
    \/ \E v \in Views : try_borrow_lamports(v)
    \/ \E v \in Views : try_borrow_mut_lamports(v)
    \/ \E v \in Views : try_borrow_data(v)
    \/ \E v \in Views : try_borrow_mut_data(v)
    \/ \E h \in Live : Ref_drop(h)
    \/ \E h \in Live : RefMut_drop(h)
    \/ \E h \in Live : Ref_map(h)
    \/ \E h \in Live, accept \in BOOLEAN : Ref_filter_map(h, accept)
    \/ \E h \in Live : RefMut_map(h)
    \/ \E h \in Live, accept \in BOOLEAN : RefMut_filter_map(h, accept)
    \/ \E h \in Live, x \in WriteValues : RefMut_deref_mut(h, x)

\* the accessors and the drops alone
NextByte ==
    \/ \E v \in Views : call_check_borrow_lamports(v)
    \/ \E v \in Views : call_check_borrow_mut_lamports(v)
    \/ \E v \in Views : call_check_borrow_data(v)
    \/ \E v \in Views : call_check_borrow_mut_data(v)
    \/ \E v \in Views : try_borrow_lamports(v)
    \/ \E v \in Views : try_borrow_mut_lamports(v)
    \/ \E v \in Views : try_borrow_data(v)
    \/ \E v \in Views : try_borrow_mut_data(v)
    \/ \E h \in Live : Ref_drop(h)
    \/ \E h \in Live : RefMut_drop(h)

\* the accessors, the transformations and the drops: every operation that
\* creates, replaces or releases a handle
NextChain ==
    \/ \E v \in Views : try_borrow_lamports(v)
    \/ \E v \in Views : try_borrow_mut_lamports(v)
    \/ \E v \in Views : try_borrow_data(v)
    \/ \E v \in Views : try_borrow_mut_data(v)
    \/ \E h \in Live : Ref_drop(h)
    \/ \E h \in Live : RefMut_drop(h)
    \/ \E h \in Live : Ref_map(h)
    \/ \E h \in Live, accept \in BOOLEAN : Ref_filter_map(h, accept)
    \/ \E h \in Live : RefMut_map(h)
    \/ \E h \in Live, accept \in BOOLEAN : RefMut_filter_map(h, accept)

\* resizing, closing and assigning, with the handles that can be in the way
NextResize ==
    \/ \E v \in Views, new_len \in NewLens, zero_init \in BOOLEAN :
            realloc(v, new_len, zero_init)
    \/ \E v \in Views : close(v)
    \/ \E v \in Views, new_owner \in NewOwners : assign(v, new_owner)
    \/ \E v \in Views : try_borrow_data(v)
    \/ \E v \in Views : try_borrow_mut_data(v)
    \/ \E h \in Live : Ref_drop(h)
    \/ \E h \in Live : RefMut_drop(h)

\* resizing, and writing the data in between
NextZero ==
    \/ \E v \in Views, new_len \in NewLens, zero_init \in BOOLEAN :
            realloc(v, new_len, zero_init)
    \/ \E v \in Views : try_borrow_mut_lamports(v)
    \/ \E v \in Views : try_borrow_mut_data(v)
    \/ \E h \in Live : RefMut_drop(h)
    \/ \E h \in Live, x \in WriteValues : RefMut_deref_mut(h, x)

Spec == Init /\ [][Next]_vars
SpecResize == InitResize /\ [][NextResize]_vars
SpecZero == InitZero /\ [][NextZero]_vars
SpecGrow == InitGrow /\ [][NextZero]_vars

NextFlags ==
    \/ \E v \in Views, new_len \in NewLens, zero_init \in BOOLEAN :
            realloc(v, new_len, zero_init)
    \/ \E v \in Views : try_borrow_lamports(v)
    \/ \E v \in Views : try_borrow_mut_lamports(v)
    \/ \E v \in Views : try_borrow_mut_data(v)
    \/ \E h \in Live : Ref_drop(h)
    \/ \E h \in Live : RefMut_drop(h)

SpecFlags == InitFlags /\ [][NextFlags]_vars
SpecByte == InitByte /\ [][NextByte]_vars
SpecAlias == InitAlias /\ [][NextByte]_vars
SpecRetry == InitRetry /\ [][NextByte]_vars
SpecChain == InitChain /\ [][NextChain]_vars
SpecScen == InitScen /\ [][Next]_vars

-----------------------------------------------------------------------------
(* Vocabulary of the claims: the documented layout of the borrow_state    *)
(* byte, and the live handles counted by what they view                    *)

\* the write flag of a sub-state: bit 7 (lamports) or bit 3 (data)
WriteBit(b, field) == IF field = "lamports" THEN (b \div 128) % 2 ELSE (b \div 8) % 2

\* the read count of a sub-state: bits 4-6 (lamports) or bits 0-2 (data)
ReadCount(b, field) == IF field = "lamports" THEN (b \div 16) % 8 ELSE b % 8

\* the four bits of a sub-state
Nibble(b, field) == IF field = "lamports" THEN b \div 16 ELSE b % 16

\* the value of one read (a write) of a sub-state within the byte
ReadUnit(field) == IF field = "lamports" THEN 16 ELSE 1
WriteUnit(field) == IF field = "lamports" THEN 128 ELSE 8

Fields == {"lamports", "data"}

\* how many handles of a kind in bag b view a field of record r
HandlesOn(b, kind, r, field) ==
    LET S == {h \in BagToSet(b) :
                h.kind = kind /\ h.value.rec = r /\ h.value.field = field}
    IN  BagCardinality([h \in S |-> b[h]])

LiveReads(r, field) == HandlesOn(handles, "Ref", r, field)
LiveWrites(r, field) == HandlesOn(handles, "RefMut", r, field)

Byte(r) == accounts[r].borrow_state

-----------------------------------------------------------------------------
(* C1: a read acquisition (try_borrow_lamports, try_borrow_data), on every *)
(* value of the byte, succeeds iff the write bit of its sub-state is clear *)
(* and its read count is below 7, and else fails with AccountBorrowFailed; *)
(* on success the read count grows by exactly one and one read handle is   *)
(* added; at most 7 read handles of a sub-state are live and an attempt    *)
(* with 7 live fails.                                                      *)

ReadAcquireOutcome(v, field) ==
    LET r == HostRecord(v)
        b == Byte(r)
    IN  /\ (ret' = "Ok") <=> (WriteBit(b, field) = 0 /\ ReadCount(b, field) < 7)
        /\ ret' \in {"Ok", "AccountBorrowFailed"}
        /\ ret' = "Ok" =>
              /\ accounts'[r].borrow_state = b + ReadUnit(field)
              /\ ReadCount(accounts'[r].borrow_state, field) = ReadCount(b, field) + 1
              /\ HandlesOn(handles', "Ref", r, field) = LiveReads(r, field) + 1
              /\ BagCardinality(handles') = BagCardinality(handles) + 1
        /\ LiveReads(r, field) >= 7 => ret' = "AccountBorrowFailed"

C1_ReadAcquire ==
    /\ [](\A r \in Records, field \in Fields : LiveReads(r, field) <= 7)
    /\ [][\A v \in Views :
            /\ try_borrow_lamports(v) => ReadAcquireOutcome(v, "lamports")
            /\ try_borrow_data(v) => ReadAcquireOutcome(v, "data")]_vars

\* seven read handles of the data of record 1 are live and an eighth
\* try_borrow_data was refused
C1_Witness ==
    /\ LiveReads(1, "data") = 7
    /\ last.op = "try_borrow_data"
    /\ ret = "AccountBorrowFailed"

-----------------------------------------------------------------------------
(* C2: a write acquisition (try_borrow_mut_lamports, try_borrow_mut_data), *)
(* on every value of the byte, succeeds iff the four bits of its sub-state *)
(* are zero, and else fails with AccountBorrowFailed; on success exactly   *)
(* the write bit of that nibble is set (0x80, 0x08) and one write handle   *)
(* is added; at most one write handle of a sub-state is live, and never    *)
(* together with a read handle of that sub-state.                          *)

WriteAcquireOutcome(v, field) ==
    LET r == HostRecord(v)
        b == Byte(r)
    IN  /\ (ret' = "Ok") <=> (Nibble(b, field) % 16 = 0)
        /\ ret' \in {"Ok", "AccountBorrowFailed"}
        /\ ret' = "Ok" =>
              /\ accounts'[r].borrow_state = b + WriteUnit(field)
              /\ HandlesOn(handles', "RefMut", r, field) = 1
              /\ BagCardinality(handles') = BagCardinality(handles) + 1

C2_WriteAcquire ==
    /\ [](\A r \in Records, field \in Fields :
            /\ LiveWrites(r, field) <= 1
            /\ LiveWrites(r, field) = 1 => LiveReads(r, field) = 0)
    /\ [][\A v \in Views :
            /\ try_borrow_mut_lamports(v) => WriteAcquireOutcome(v, "lamports")
            /\ try_borrow_mut_data(v) => WriteAcquireOutcome(v, "data")]_vars

\* three read handles of the data of record 1 are live, the byte is 0x03,
\* and try_borrow_mut_data was refused
C2_Witness ==
    /\ LiveReads(1, "data") = 3
    /\ Byte(1) = 3
    /\ last.op = "try_borrow_mut_data"
    /\ ret = "AccountBorrowFailed"

-----------------------------------------------------------------------------
(* C3: from borrow_state = 0 the byte of every record is the encoding of   *)
(* its live handles: per sub-state the read count is the number of live    *)
(* read handles, the write bit is set iff one write handle is live, a live *)
(* write handle excludes live read handles; the byte is 0 when no handle   *)
(* is live.                                                                *)

Encoded(r, field) == 8 * LiveWrites(r, field) + LiveReads(r, field)

C3_ByteEncodesLiveHandles ==
    \A r \in Records :
        /\ \A field \in Fields :
              /\ LiveReads(r, field) <= 7
              /\ LiveWrites(r, field) <= 1
              /\ LiveWrites(r, field) = 1 => LiveReads(r, field) = 0
              /\ ReadCount(Byte(r), field) = LiveReads(r, field)
              /\ WriteBit(Byte(r), field) = LiveWrites(r, field)
        /\ Byte(r) = 16 * Encoded(r, "lamports") + Encoded(r, "data")
        /\ handles = EmptyBag => Byte(r) = 0

\* record 1 with a write handle of lamports and two read handles of data,
\* one of them transformed, acquired and left after other handles were dropped
C3_Witness ==
    /\ LiveWrites(1, "lamports") = 1
    /\ LiveReads(1, "data") = 2
    /\ \E h \in Live : h.kind = "Ref" /\ h.value.off = 1
    /\ \E h \in Live : h.kind = "Ref" /\ h.value.off = 0
    /\ last.op = "Ref_drop"
    /\ Byte(1) = 130

-----------------------------------------------------------------------------
(* C4: views that alias one record share its byte.  While a write handle   *)
(* of a sub-state is live, whichever view it was acquired through,         *)
(* try_borrow_* and try_borrow_mut_* on that sub-state fail through every  *)
(* view of the record; live read handles block a write acquisition through *)
(* every view and count toward the limit of 7 through every view.          *)

TryRead(v, field) ==
    IF field = "lamports" THEN try_borrow_lamports(v) ELSE try_borrow_data(v)

TryWrite(v, field) ==
    IF field = "lamports" THEN try_borrow_mut_lamports(v) ELSE try_borrow_mut_data(v)

C4_AliasesShareTheByte ==
    [][\A v \in Views, field \in Fields :
          LET r == HostRecord(v) IN
          /\ (TryRead(v, field) /\ LiveWrites(r, field) >= 1)
                => ret' = "AccountBorrowFailed"
          /\ (TryRead(v, field) /\ LiveReads(r, field) >= 7)
                => ret' = "AccountBorrowFailed"
          /\ (TryRead(v, field) /\ ret' = "Ok")
                => ReadCount(accounts'[r].borrow_state, field)
                     = LiveReads(r, field) + 1
          /\ (TryWrite(v, field) /\ LiveWrites(r, field) + LiveReads(r, field) >= 1)
                => ret' = "AccountBorrowFailed"]_vars

\* the write handle of data acquired through view A is live and
\* try_borrow_data through view B was refused
C4_Witness ==
    /\ chain.phase = "live"
    /\ chain.via = "A"
    /\ chain.cur.kind = "RefMut"
    /\ chain.cur.value.field = "data"
    /\ last = Call("try_borrow_data", "B")
    /\ ret = "AccountBorrowFailed"

-----------------------------------------------------------------------------
(* C5: a checked acquire that fails with AccountBorrowFailed leaves every  *)
(* field of every record (borrow_state, owner, lamports, data_len,         *)
(* original_data_len, data) as it was and creates no handle.               *)

C5_FailedAcquireChangesNothing ==
    [][(/\ ret' = "AccountBorrowFailed"
        /\ \E v \in Views, field \in Fields : TryRead(v, field) \/ TryWrite(v, field))
          => (accounts' = accounts /\ handles' = handles)]_vars

\* try_borrow_mut_lamports was refused on a record the program has written
\* to (lamports and data differ from their values at entry)
C5_Witness ==
    /\ last.op = "try_borrow_mut_lamports"
    /\ ret = "AccountBorrowFailed"
    /\ accounts[1].lamports = 0
    /\ accounts[1].data[0] = 1
    /\ LiveReads(1, "lamports") = 2

-----------------------------------------------------------------------------
(* C6: a chain of one successful acquire, any map / filter_map steps       *)
(* (accepting or declining) and the drop of the final handle leaves the    *)
(* byte at its value just before the acquire, whatever other handles are   *)
(* live meanwhile.                                                         *)

C6_ChainRestoresByte ==
    chain.phase = "done" => Byte(chain.cur.state) = chain.pre

\* a write handle of lamports was acquired while three reads of data were
\* live, a filter_map declined, a transformation accepted, and the final
\* handle was dropped
C6_Witness ==
    /\ chain.phase = "done"
    /\ chain.cur.kind = "RefMut"
    /\ chain.cur.value.field = "lamports"
    /\ chain.cur.value.off >= 1
    /\ chain.declined
    /\ chain.pre = 3

-----------------------------------------------------------------------------
(* C7: Ref::map, RefMut::map and an accepting filter_map leave the byte    *)
(* (and every record) unchanged; exactly the consumed handle is replaced   *)
(* by one handle of the same kind over a new value, with the same          *)
(* borrow_shift / borrow_mask and the same borrow-state cell.              *)

Transformed(h) ==
    \/ Ref_map(h)
    \/ Ref_filter_map(h, TRUE)
    \/ RefMut_map(h)
    \/ RefMut_filter_map(h, TRUE)

C7_TransformKeepsByteAndTag ==
    [][\A h \in Live :
          Transformed(h) =>
             /\ ret' = "Ok"
             /\ accounts' = accounts
             /\ \E n \in BagToSet(handles') :
                   /\ handles' = Add(Remove(handles, h), n)
                   /\ n.kind = h.kind
                   /\ n.tag = h.tag
                   /\ n.state = h.state
                   /\ n.value # h.value]_vars

\* a read handle of lamports has just been transformed by filter_map while
\* another handle is live: the byte still counts both
C7_Witness ==
    /\ last.op = "Ref_filter_map"
    /\ ret = "Ok"
    /\ \E h \in Live : h.value.off = 1 /\ h.tag = LAMPORTS_SHIFT /\ h.kind = "Ref"
    /\ Byte(1) = 32

-----------------------------------------------------------------------------
(* C8: a declining filter_map (Ref and RefMut) returns Err with the        *)
(* original handle, changes neither the byte nor the live handles, and the *)
(* handle given back releases exactly once when dropped.                   *)

Declined(h) == Ref_filter_map(h, FALSE) \/ RefMut_filter_map(h, FALSE)

C8_DeclineKeepsHandle ==
    /\ [][\A h \in Live :
            Declined(h) =>
               /\ ret' = "Err"
               /\ accounts' = accounts
               /\ handles' = handles
               /\ h \in BagToSet(handles')]_vars
    /\ []((chain.phase = "done" /\ chain.declined)
            => Byte(chain.cur.state) = chain.pre)

\* a write handle of data was acquired, filter_map declined, and the handle
\* given back (never transformed) was dropped
C8_Witness ==
    /\ chain.phase = "done"
    /\ chain.declined
    /\ chain.cur.kind = "RefMut"
    /\ chain.cur.value.field = "data"
    /\ chain.cur.value.off = 0
    /\ Byte(1) = 0

-----------------------------------------------------------------------------
(* C9: a dry-run check changes neither the byte nor any other field nor    *)
(* the live handles; on every value of the byte it returns Ok exactly when *)
(* the corresponding try_borrow_* would succeed in that state and          *)
(* AccountBorrowFailed otherwise; a repeated check gives the same answer.  *)

CheckCall(v, kind, field) ==
    IF kind = "Ref"
    THEN (IF field = "lamports" THEN call_check_borrow_lamports(v)
                                ELSE call_check_borrow_data(v))
    ELSE (IF field = "lamports" THEN call_check_borrow_mut_lamports(v)
                                ELSE call_check_borrow_mut_data(v))

CheckName(kind, field) ==
    IF kind = "Ref"
    THEN (IF field = "lamports" THEN "check_borrow_lamports" ELSE "check_borrow_data")
    ELSE (IF field = "lamports" THEN "check_borrow_mut_lamports"
                                ELSE "check_borrow_mut_data")

TryCall(v, kind, field) ==
    IF kind = "Ref" THEN TryRead(v, field) ELSE TryWrite(v, field)

\* the try_borrow_* call can return res in the current state
TryCanReturn(v, kind, field, res) == ENABLED (TryCall(v, kind, field) /\ ret' = res)

C9_DryRunAgreesWithTry ==
    [][\A v \in Views, kind \in {"Ref", "RefMut"}, field \in Fields :
          CheckCall(v, kind, field) =>
             /\ accounts' = accounts
             /\ handles' = handles
             /\ ret' \in {"Ok", "AccountBorrowFailed"}
             /\ (ret' = "AccountBorrowFailed")
                   <=> TryCanReturn(v, kind, field, "AccountBorrowFailed")
             /\ BagCardinality(handles) < MaxHandles
                   => ((ret' = "Ok") <=> TryCanReturn(v, kind, field, "Ok"))
             /\ last.op = CheckName(kind, field) => ret' = ret]_vars

\* with the byte at 0x70 (seven reads of lamports) and no write flag,
\* check_borrow_lamports has answered AccountBorrowFailed
C9_Witness ==
    /\ Byte(1) = 112
    /\ last.op = "check_borrow_lamports"
    /\ ret = "AccountBorrowFailed"
    /\ LiveReads(1, "lamports") = 7

-----------------------------------------------------------------------------
(* C10: from byte 0x00, three read acquisitions of data succeed and give   *)
(* 0x03; a write acquisition of data then fails with AccountBorrowFailed   *)
(* and leaves 0x03; dropping one read handle gives 0x02; a write           *)
(* acquisition of lamports then succeeds and gives 0x82.                   *)

C10_Scenario ==
    /\ scen \in {1, 2, 3} => (ret = "Ok" /\ Byte(1) = scen)
    /\ scen = 4 => (ret = "AccountBorrowFailed" /\ Byte(1) = 3)
    /\ scen = 5 => Byte(1) = 2
    /\ scen = 6 => (ret = "Ok" /\ Byte(1) = 130)

\* the scenario has run to its end
C10_Witness ==
    /\ scen = 6
    /\ LiveReads(1, "data") = 2
    /\ LiveWrites(1, "lamports") = 1

-----------------------------------------------------------------------------
(* Vocabulary of the claims on realloc, close and assign *)

\* some handle, read or write, on the data of record r is live
DataBorrowed(r) == \E h \in Live : h.value.rec = r /\ h.value.field = "data"

\* the sentinel bit of original_data_len, and the length held by the other bits
Sentinel(r) == accounts[r].original_data_len.bit31
StoredLen(r) == accounts[r].original_data_len.low

\* the original length a realloc of record r measures from: the memoized
\* one, or the current length when none is memoized yet
MeasuredFrom(r) == IF Sentinel(r) = 1 THEN StoredLen(r) ELSE accounts[r].data_len

-----------------------------------------------------------------------------
(* C11: realloc is rejected with AccountBorrowFailed whenever a read or    *)
(* write handle on the data of the record is live, whichever view acquired *)
(* it and whatever new_len is (the current length included); data_len,     *)
(* original_data_len, the data bytes and the borrow_state byte are then    *)
(* unchanged.                                                              *)

C11_ReallocRefusedWhileBorrowed ==
    [][\/ /\ ret' = "AccountBorrowFailed"
           /\ accounts' = accounts
           /\ handles' = handles
        \/ \A v \in Views :
              DataBorrowed(HostRecord(v)) =>
                 \A new_len \in NewLens, zero_init \in BOOLEAN :
                    ~ realloc(v, new_len, zero_init)]_vars

\* realloc was refused while two read handles of the data were live, the
\* record being as long as it was serialized
C11_Witness ==
    /\ last.op = "realloc"
    /\ ret = "AccountBorrowFailed"
    /\ LiveReads(1, "data") = 2
    /\ accounts[1].data_len = serialized[1]
    /\ Sentinel(1) = 0

-----------------------------------------------------------------------------
(* C12: realloc(new_len, zero_init) with new_len equal to the current      *)
(* data_len and no data handle live returns Ok and mutates nothing:        *)
(* data_len, the data bytes, original_data_len (no sentinel is set) and,   *)
(* the call having returned, the borrow_state byte are as before, for      *)
(* either zero_init.                                                       *)

C12_SameLenReallocIsNoop ==
    [][\/ /\ ret' = "Ok"
           /\ accounts' = accounts
           /\ handles' = handles
        \/ \A v \in Views :
              \/ DataBorrowed(HostRecord(v))
              \/ \A zero_init \in BOOLEAN :
                    ~ realloc(v, accounts[HostRecord(v)].data_len, zero_init)]_vars

\* realloc to the serialized length, zero_init set, has returned Ok while a
\* write handle of lamports is live: no sentinel, the byte still 0x80
C12_Witness ==
    /\ last.op = "realloc"
    /\ last.args.new_len = last.args.current_len
    /\ last.args.zero_init
    /\ ret = "Ok"
    /\ accounts[1].data_len = serialized[1]
    /\ Sentinel(1) = 0
    /\ Byte(1) = 128

-----------------------------------------------------------------------------
(* C13: with original_len the memoized original length (the current length *)
(* when the call is the one that memoizes) and no data handle live,        *)
(* realloc(original_len + 10240) succeeds and sets data_len to that value, *)
(* realloc(original_len + 10241) fails with InvalidRealloc and leaves      *)
(* data_len unchanged, from any current length earlier reallocs reached.   *)

C13_CeilingIsExact ==
    [][\A v \in Views :
          LET r == HostRecord(v)
              original_len == MeasuredFrom(r)
          IN  \/ DataBorrowed(r)
              \/ \A zero_init \in BOOLEAN :
                    /\ realloc(v, original_len + 10240, zero_init) =>
                          /\ ret' = "Ok"
                          /\ accounts'[r].data_len = original_len + 10240
                    /\ realloc(v, original_len + 10241, zero_init) =>
                          /\ ret' = "InvalidRealloc"
                          /\ accounts'[r].data_len = accounts[r].data_len]_vars

\* the record serialized with 1 byte has been grown to 1 + 10240 bytes, and
\* realloc(1 + 10241) has then failed
C13_Witness ==
    /\ last.op = "realloc"
    /\ serialized[1] = 1
    /\ Sentinel(1) = 1
    /\ last.args.new_len = StoredLen(1) + 10241
    /\ ret = "InvalidRealloc"
    /\ accounts[1].data_len = StoredLen(1) + 10240

-----------------------------------------------------------------------------
(* C14: the growth limit of realloc is measured from the memoized original *)
(* length, never from the current one: after any successful shrinks and    *)
(* grows a request succeeds iff new_len - original_len <= 10240 (every     *)
(* new_len at or below original_len succeeds, 0 included), so reallocs of  *)
(* at most 10240 bytes each cannot take data_len past original_len + 10240.*)

C14_GrowthFromOriginal ==
    /\ [](\A r \in Records :
            Sentinel(r) = 1 => accounts[r].data_len <= StoredLen(r) + 10240)
    /\ [][last'.op = "realloc" =>
            \A v \in Views :
               LET r == HostRecord(v)
                   new_len == last'.args.new_len
               IN  (~ DataBorrowed(r) /\ realloc(v, new_len, last'.args.zero_init)) =>
                      /\ ret' \in {"Ok", "InvalidRealloc"}
                      /\ (ret' = "Ok") <=> (new_len - MeasuredFrom(r) <= 10240)
                      /\ new_len <= MeasuredFrom(r) => ret' = "Ok"
                      /\ ret' = "Ok" => accounts'[r].data_len = new_len]_vars

\* the record serialized with 10241 bytes was shrunk to 0 and has then been
\* grown, in one call, to 10241 + 10240 bytes
C14_Witness ==
    /\ last.op = "realloc"
    /\ ret = "Ok"
    /\ Sentinel(1) = 1
    /\ StoredLen(1) = 10241
    /\ last.args.current_len = 0
    /\ last.args.new_len = StoredLen(1) + 10240
    /\ accounts[1].data_len = 20481

-----------------------------------------------------------------------------
(* C15, as stated: in every reachable state of a record (from entry,       *)
(* through any realloc, close, assign and borrow operations, and before    *)
(* the first realloc too), data_len <= L + 10240 with L the original       *)
(* length held in original_data_len, sentinel bit masked off.              *)

C15_AsStated ==
    \A r \in Records : accounts[r].data_len <= StoredLen(r) + 10240

(* C15, amended: in every reachable state in which the sentinel bit of     *)
(* original_data_len is set, data_len <= L + 10240 with L the length held  *)
(* by the other bits; while the sentinel is clear the field holds no       *)
(* length, and data_len is at most the length the record was serialized    *)
(* with.  In every state data_len is at most the serialized length + 10240.*)

C15_LengthWithinCeiling ==
    \A r \in Records :
        /\ Sentinel(r) = 1 => accounts[r].data_len <= StoredLen(r) + 10240
        /\ Sentinel(r) = 0 => accounts[r].data_len <= serialized[r]
        /\ accounts[r].data_len <= serialized[r] + 10240

\* a record serialized with 10241 bytes was closed and assigned, its first
\* realloc memoized 0, it was grown to 10240 bytes and its data is borrowed
C15_Witness ==
    /\ serialized[1] = 10241
    /\ Sentinel(1) = 1
    /\ StoredLen(1) = 0
    /\ accounts[1].data_len = 10240
    /\ accounts[1].owner = 2
    /\ LiveReads(1, "data") = 1

-----------------------------------------------------------------------------
(* C16, as stated: a realloc that fails with InvalidRealloc changes no     *)
(* shared state: data_len, original_data_len (its sentinel bit included),  *)
(* the data bytes, owner, lamports and, the call having returned, the      *)
(* borrow_state byte are as before the call, also when this is the first   *)
(* realloc of the invocation.                                              *)

C16_AsStated ==
    [][ret' = "InvalidRealloc" => (accounts' = accounts /\ handles' = handles)]_vars

(* C16, amended: a realloc that fails with InvalidRealloc changes no       *)
(* shared state other than original_data_len: data_len, the data bytes,    *)
(* owner, lamports and, the call having returned, the borrow_state byte    *)
(* are as before the call.  original_data_len is unchanged when its        *)
(* sentinel bit was set before the call; when it was clear (the first      *)
(* realloc to get past the equal-length return) the failing call leaves it *)
(* holding the current data_len with the sentinel bit set.                 *)

\* record r is in the next state as now, but for original_data_len
SameButOriginalLen(r) ==
    \A f \in DOMAIN accounts[r] \ {"original_data_len"} :
        accounts'[r][f] = accounts[r][f]

C16_FailedReallocOnlyMemoizes ==
    [][ret' = "InvalidRealloc" =>
          /\ handles' = handles
          /\ \A r \in Records :
                /\ SameButOriginalLen(r)
                /\ \/ accounts'[r].original_data_len = accounts[r].original_data_len
                   \/ /\ Sentinel(r) = 0
                      /\ r \in {HostRecord(v) : v \in Views}
                      /\ accounts'[r].original_data_len.bit31 = 1
                      /\ accounts'[r].original_data_len.low = accounts[r].data_len
                /\ Sentinel(r) = 1 =>
                      accounts'[r].original_data_len = accounts[r].original_data_len]_vars

\* the first realloc of a record serialized with 1 byte has failed with
\* InvalidRealloc while a write handle of lamports was live: the sentinel
\* is now set over the length 1, everything else is as it was
C16_Witness ==
    /\ last.op = "realloc"
    /\ ret = "InvalidRealloc"
    /\ last.args.length.bit31 = 0
    /\ Sentinel(1) = 1
    /\ StoredLen(1) = 1
    /\ accounts[1].data_len = 1
    /\ accounts[1].data = last.args.data
    /\ Byte(1) = 128

-----------------------------------------------------------------------------
(* C17: a successful realloc(new_len, true) from the pre-call length c     *)
(* sets to zero exactly the bytes at the indices in [c, new_len) when      *)
(* new_len > c, and no byte when new_len < c; every byte at an index below *)
(* c and every byte at an index at or above new_len is unchanged.          *)

C17_ZeroInitSpan ==
    [][(last'.op = "realloc" /\ ret' = "Ok") =>
          \A v \in Views :
             LET r == HostRecord(v)
                 c == accounts[r].data_len
                 new_len == last'.args.new_len
             IN  realloc(v, new_len, TRUE) =>
                    \A i \in DataAddrs :
                       /\ (c <= i /\ i < new_len) => accounts'[r].data[i] = 0
                       /\ (i < c \/ i >= new_len) =>
                             accounts'[r].data[i] = accounts[r].data[i]]_vars

\* a record serialized with 10241 bytes, all 1, was shrunk to 1 byte and
\* has been grown to 2 with zero_init: byte 1, stale before the call, is
\* now 0, bytes 0 and 2 are still 1
C17_Witness ==
    /\ last.op = "realloc"
    /\ ret = "Ok"
    /\ last.args.zero_init
    /\ last.args.current_len = 1
    /\ last.args.new_len = 2
    /\ last.args.data[1] = 1
    /\ accounts[1].data[0] = 1
    /\ accounts[1].data[1] = 0
    /\ accounts[1].data[2] = 1

-----------------------------------------------------------------------------
(* C18: close fails with AccountBorrowFailed, changing nothing, while a    *)
(* read or write handle on the data is live; with no data handle live it   *)
(* succeeds, and afterwards owner is the all-zero address, lamports is 0   *)
(* and data_len is 0, while every data byte keeps its value.               *)

C18_Close ==
    [][\A v \in Views :
          LET r == HostRecord(v) IN
          close(v) =>
             /\ handles' = handles
             /\ IF DataBorrowed(r)
                THEN /\ ret' = "AccountBorrowFailed"
                     /\ accounts' = accounts
                ELSE /\ ret' = "Ok"
                     /\ accounts'[r].owner = 0
                     /\ accounts'[r].lamports = 0
                     /\ accounts'[r].data_len = 0
                     /\ accounts'[r].data = accounts[r].data]_vars

\* a record serialized with 10241 bytes has been closed: owner, lamports
\* and data_len are 0, the first and the last of its bytes are still 1
C18_Witness ==
    /\ last.op = "close"
    /\ ret = "Ok"
    /\ serialized[1] = 10241
    /\ accounts[1].owner = 0
    /\ accounts[1].lamports = 0
    /\ accounts[1].data_len = 0
    /\ accounts[1].data[0] = 1
    /\ accounts[1].data[10240] = 1

-----------------------------------------------------------------------------
(* C19: the original length is memoized at most once per invocation: the   *)
(* first realloc to get past the equal-length early return stores the      *)
(* then-current data_len with the sentinel bit set; in every later state   *)
(* the sentinel stays set and the stored length never changes, whatever    *)
(* reallocs, closes or borrows follow.                                     *)

C19_MemoizedOnce ==
    [][\A r \in Records :
          /\ Sentinel(r) = 1 =>
                accounts'[r].original_data_len = accounts[r].original_data_len
          /\ (Sentinel(r) = 0
                /\ accounts'[r].original_data_len # accounts[r].original_data_len) =>
                /\ last'.op = "realloc"
                /\ accounts'[r].original_data_len.bit31 = 1
                /\ accounts'[r].original_data_len.low = accounts[r].data_len
          /\ (Sentinel(r) = 0 /\ ~ DataBorrowed(r)) =>
                \A v \in Views, new_len \in NewLens \ {accounts[r].data_len},
                   zero_init \in BOOLEAN :
                   (HostRecord(v) = r /\ realloc(v, new_len, zero_init)) =>
                      /\ accounts'[r].original_data_len.bit31 = 1
                      /\ accounts'[r].original_data_len.low = accounts[r].data_len]_vars

\* a record serialized with 10241 bytes was resized, closed and resized
\* again to 2 bytes: the length stored by the first realloc is still 10241
C19_Witness ==
    /\ last.op = "realloc"
    /\ ret = "Ok"
    /\ serialized[1] = 10241
    /\ Sentinel(1) = 1
    /\ StoredLen(1) = 10241
    /\ accounts[1].owner = 0
    /\ accounts[1].data_len = 2

-----------------------------------------------------------------------------
(* C20: whenever the sentinel bit of original_data_len is set, the other   *)
(* bits equal the true original length, the data_len the record had at     *)
(* entry, for every sequence of realloc, close, assign and borrow          *)
(* operations that preceded the memoization.                               *)

C20_StoredIsSerializedLen ==
    \A r \in Records : Sentinel(r) = 1 => StoredLen(r) = serialized[r]

-----------------------------------------------------------------------------
(* Cross-program invocation (instruction-view/src/cpi.rs) *)

\* declared in the crate root; no list of the model comes near it
MAX_INSTRUCTION_ACCOUNTS == 255

\* AccountMeta: the address and the is_writable flag of one instruction account
AccountMeta(address, writable) ==
    [address |-> address, is_writable |-> writable]

\* the account metas an instruction may carry
Metas == {AccountMeta(1, TRUE), AccountMeta(1, FALSE), AccountMeta(2, FALSE)}

\* instruction.accounts: up to two metas
InstructionAccounts ==
    {<<>>} \cup {<<m>> : m \in Metas} \cup {<<m, n>> : m \in Metas, n \in Metas}

\* account_infos: up to two views, in the order of the metas
AccountInfos == {<<"A">>, <<"A", "B">>}

\* mutant: only the data sub-state of an account is checked
CheckAccount_dataonly(account_info, account_meta) ==
    IF account_meta.is_writable
    THEN check_borrow_mut_data(account_info)
    ELSE check_borrow_data(account_info)

\* the dry-run checks of one account, in the order of the code: the first
\* failure is the result
CheckAccount(account_info, account_meta) ==
    IF account_meta.is_writable
    THEN IF check_borrow_mut_data(account_info) # "Ok"
         THEN check_borrow_mut_data(account_info)
         ELSE check_borrow_mut_lamports(account_info)
    ELSE IF check_borrow_data(account_info) # "Ok"
         THEN check_borrow_data(account_info)
         ELSE check_borrow_lamports(account_info)

\* mutant: the borrow state of an account is checked before its key
ValidateAccount_borrowfirst(account_info, account_meta) ==
    IF CheckAccount(account_info, account_meta) # "Ok"
    THEN CheckAccount(account_info, account_meta)
    ELSE IF accounts[View(account_info).raw].key # account_meta.address
    THEN "InvalidArgument"
    ELSE "Ok"

\* one pass of the loop for the account at index
ValidateAccount(account_info, account_meta) ==
    IF accounts[View(account_info).raw].key # account_meta.address
    THEN "InvalidArgument"
    ELSE CheckAccount(account_info, account_meta)

\* the loop over the first n accounts: the result of the first pass that
\* returns, "Ok" when none does
RECURSIVE ValidateFrom(_, _, _, _)
ValidateFrom(index, n, instruction, account_infos) ==
    IF index > n THEN "Ok"
    ELSE LET res == ValidateAccount(account_infos[index], instruction[index])
         IN  IF res # "Ok" THEN res
             ELSE ValidateFrom(index + 1, n, instruction, account_infos)

\* CpiAccount::from and invoke_signed_unchecked: the array of CpiAccount
\* built from the records is handed to sol_invoke_signed_c, with the
\* instruction of the caller as it came
invoke_signed_unchecked(instruction, account_infos) ==
    [accounts |-> [i \in DOMAIN account_infos |-> View(account_infos[i]).raw]]

\* what a call of either function leaves: its result and, when it validated,
\* the outbound call
Invoked(op, res, instruction, account_infos) ==
    /\ ret' = res
    /\ outbound' = IF res = "Ok"
                   THEN invoke_signed_unchecked(instruction, account_infos)
                   ELSE outbound
    /\ UNCHANGED <<accounts, handles, watch, serialized, exposed, chain, scen>>
    /\ last' = [op |-> op, view |-> "-", args |-> <<instruction, account_infos>>]

\* invoke_signed::<ACCOUNTS>, ACCOUNTS being the length of account_infos
invoke_signed(instruction, account_infos) ==
    LET ACCOUNTS == Len(account_infos)
    IN  IF Len(instruction) < ACCOUNTS
        THEN Invoked("invoke_signed", "NotEnoughAccountKeys",
                     instruction, account_infos)
        ELSE Invoked("invoke_signed",
                     ValidateFrom(1, ACCOUNTS, instruction, account_infos),
                     instruction, account_infos)

\* slice_invoke_signed
slice_invoke_signed(instruction, account_infos) ==
    IF Len(instruction) < Len(account_infos)
    THEN Invoked("slice_invoke_signed", "NotEnoughAccountKeys",
                 instruction, account_infos)
    ELSE IF Len(account_infos) > MAX_INSTRUCTION_ACCOUNTS
    THEN Invoked("slice_invoke_signed", "InvalidArgument",
                 instruction, account_infos)
    ELSE Invoked("slice_invoke_signed",
                 ValidateFrom(1, Len(account_infos), instruction, account_infos),
                 instruction, account_infos)

InitCpi == Entry("cpi", 0)

NextCpi ==
    \/ \E instruction \in InstructionAccounts, account_infos \in AccountInfos :
            invoke_signed(instruction, account_infos)
    \/ \E instruction \in InstructionAccounts, account_infos \in AccountInfos :
            slice_invoke_signed(instruction, account_infos)
    \/ \E v \in Views : try_borrow_lamports(v)
    \/ \E v \in Views : try_borrow_mut_lamports(v)
    \/ \E v \in Views : try_borrow_data(v)
    \/ \E v \in Views : try_borrow_mut_data(v)
    \/ \E h \in Live : Ref_drop(h)
    \/ \E h \in Live : RefMut_drop(h)

SpecCpi == InitCpi /\ [][NextCpi]_vars

\* the pair of dry-run checks the meta of an account asks for both pass
PassesChecks(account_info, account_meta) ==
    IF account_meta.is_writable
    THEN /\ check_borrow_mut_data(account_info) = "Ok"
         /\ check_borrow_mut_lamports(account_info) = "Ok"
    ELSE /\ check_borrow_data(account_info) = "Ok"
         /\ check_borrow_lamports(account_info) = "Ok"

\* the arguments are well formed: a meta for every account, with its address
WellFormed(instruction, account_infos) ==
    /\ Len(instruction) >= Len(account_infos)
    /\ \A i \in DOMAIN account_infos :
            accounts[View(account_infos[i]).raw].key = instruction[i].address

-----------------------------------------------------------------------------
(* Read-only and unchecked accessors *)

\* mutant: the accessor does not return while the data is borrowed mutably
Returned_unlessborrowed(op, v, value) ==
    /\ check_borrow_data(v) = "Ok"
    /\ ret' = value
    /\ UNCHANGED <<accounts, handles>>
    /\ Observe(op, v, View(v).raw, "-", chain)

\* an accessor called through view v returns value; nothing is written
Returned(op, v, value) ==
    /\ ret' = value
    /\ UNCHANGED <<accounts, handles>>
    /\ Observe(op, v, View(v).raw, "-", chain)

key(v) == Returned("key", v, accounts[View(v).raw].key)
owner(v) == Returned("owner", v, accounts[View(v).raw].owner)
is_signer(v) == Returned("is_signer", v, accounts[View(v).raw].is_signer # 0)
is_writable(v) == Returned("is_writable", v, accounts[View(v).raw].is_writable # 0)
executable(v) == Returned("executable", v, accounts[View(v).raw].executable # 0)
data_len(v) == Returned("data_len", v, accounts[View(v).raw].data_len)
lamports(v) == Returned("lamports", v, accounts[View(v).raw].lamports)
data_is_empty(v) == Returned("data_is_empty", v, accounts[View(v).raw].data_len = 0)
is_owned_by(v, program) ==
    Returned("is_owned_by", v, accounts[View(v).raw].owner = program)

\* the unchecked accessors return the plain reference or slice
borrow_lamports_unchecked(v) ==
    Returned("borrow_lamports_unchecked", v, LamportsPtr(View(v).raw))
borrow_mut_lamports_unchecked(v) ==
    Returned("borrow_mut_lamports_unchecked", v, LamportsPtr(View(v).raw))
borrow_data_unchecked(v) ==
    Returned("borrow_data_unchecked", v, DataSlice(View(v).raw))
borrow_mut_data_unchecked(v) ==
    Returned("borrow_mut_data_unchecked", v, DataSlice(View(v).raw))

\* the programs an account may be compared with
Programs == {1, 2}

NextAccess ==
    \/ \E v \in Views : key(v)
    \/ \E v \in Views : owner(v)
    \/ \E v \in Views : is_signer(v)
    \/ \E v \in Views : is_writable(v)
    \/ \E v \in Views : executable(v)
    \/ \E v \in Views : data_len(v)
    \/ \E v \in Views : lamports(v)
    \/ \E v \in Views : data_is_empty(v)
    \/ \E v \in Views, program \in Programs : is_owned_by(v, program)
    \/ \E v \in Views : borrow_lamports_unchecked(v)
    \/ \E v \in Views : borrow_mut_lamports_unchecked(v)
    \/ \E v \in Views : borrow_data_unchecked(v)
    \/ \E v \in Views : borrow_mut_data_unchecked(v)
    \/ \E v \in Views : try_borrow_lamports(v)
    \/ \E v \in Views : try_borrow_mut_lamports(v)
    \/ \E v \in Views : try_borrow_data(v)
    \/ \E v \in Views : try_borrow_mut_data(v)
    \/ \E h \in Live : Ref_drop(h)
    \/ \E h \in Live : RefMut_drop(h)

SpecAccess == InitByte /\ [][NextAccess]_vars

\* the accessors that take no argument but the view
Accessors ==
    {"key", "owner", "is_signer", "is_writable", "executable", "data_len",
     "lamports", "data_is_empty", "borrow_lamports_unchecked",
     "borrow_mut_lamports_unchecked", "borrow_data_unchecked",
     "borrow_mut_data_unchecked"}

\* a call of the accessor named op through view v
AccessorCall(op, v) ==
    CASE op = "key" -> key(v)
      [] op = "owner" -> owner(v)
      [] op = "is_signer" -> is_signer(v)
      [] op = "is_writable" -> is_writable(v)
      [] op = "executable" -> executable(v)
      [] op = "data_len" -> data_len(v)
      [] op = "lamports" -> lamports(v)
      [] op = "data_is_empty" -> data_is_empty(v)
      [] op = "borrow_lamports_unchecked" -> borrow_lamports_unchecked(v)
      [] op = "borrow_mut_lamports_unchecked" -> borrow_mut_lamports_unchecked(v)
      [] op = "borrow_data_unchecked" -> borrow_data_unchecked(v)
      [] op = "borrow_mut_data_unchecked" -> borrow_mut_data_unchecked(v)

\* what an accessor is to return: a field, or a reference to one, of the
\* record taken without its borrow-state byte
FieldRead(op, r) ==
    LET rec == [accounts[r] EXCEPT !.borrow_state = 0]
    IN  CASE op = "key" -> rec.key
          [] op = "owner" -> rec.owner
          [] op = "is_signer" -> rec.is_signer # 0
          [] op = "is_writable" -> rec.is_writable # 0
          [] op = "executable" -> rec.executable # 0
          [] op = "data_len" -> rec.data_len
          [] op = "lamports" -> rec.lamports
          [] op = "data_is_empty" -> rec.data_len = 0
          [] op \in {"borrow_lamports_unchecked", "borrow_mut_lamports_unchecked"}
                -> [rec |-> r, field |-> "lamports", off |-> 0, len |-> U64_SIZE]
          [] op \in {"borrow_data_unchecked", "borrow_mut_data_unchecked"}
                -> [rec |-> r, field |-> "data", off |-> 0, len |-> rec.data_len]

\* C22: the unchecked accessors (borrow_lamports_unchecked,
\* borrow_mut_lamports_unchecked, borrow_data_unchecked,
\* borrow_mut_data_unchecked) and the read-only accessors (key, owner,
\* is_signer, is_writable, executable, data_len, lamports, data_is_empty,
\* is_owned_by) neither read nor change the borrow-state byte: on every value
\* of the byte and with any handles live, each of them can be called, returns
\* the field it is about (never a borrow failure), and leaves every record,
\* the byte included, and every handle as it was.
C22_AccessorsIgnoreBorrowState ==
    /\ [](\A v \in Views :
            /\ \A op \in Accessors : ENABLED AccessorCall(op, v)
            /\ \A program \in Programs : ENABLED is_owned_by(v, program))
    /\ [][\A v \in Views :
            /\ \A op \in Accessors :
                    (last'.op = op /\ AccessorCall(op, v)) =>
                        /\ accounts' = accounts
                        /\ handles' = handles
                        /\ ret' = FieldRead(op, View(v).raw)
            /\ \A program \in Programs :
                    (last'.op = "is_owned_by" /\ is_owned_by(v, program)) =>
                        /\ accounts' = accounts
                        /\ handles' = handles
                        /\ ret' = (accounts[View(v).raw].owner = program)]_vars

\* borrow_mut_data_unchecked returned the data while a write handle of the
\* data was live
C22_Witness ==
    /\ last.op = "borrow_mut_data_unchecked"
    /\ LiveWrites(1, "data") = 1
    /\ WriteBit(Byte(1), "data") = 1
    /\ ret = DataSlice(1)

-----------------------------------------------------------------------------
(* C23: the two sub-states of the byte are independent.  An acquisition or *)
(* a release on one sub-state (lamports, data) leaves the four bits of the *)
(* other as they were; the release of a write handle clears the write bit  *)
(* of its own sub-state and no other bit; and an acquisition is denied     *)
(* only for what its own four bits hold, so a conflict on data never       *)
(* denies an acquisition of lamports, and conversely.                      *)

Other(field) == IF field = "lamports" THEN "data" ELSE "lamports"

\* the four bits of the other sub-state of record r are after the step as before
OtherNibbleKept(r, field) ==
    Nibble(accounts'[r].borrow_state, Other(field)) = Nibble(Byte(r), Other(field))

C23_SubStatesIndependent ==
    [][ /\ \A v \in Views, field \in Fields :
            LET r == HostRecord(v) IN
            /\ TryRead(v, field) =>
                    /\ OtherNibbleKept(r, field)
                    /\ (WriteBit(Byte(r), field) = 0 /\ ReadCount(Byte(r), field) < 7)
                            => ret' = "Ok"
            /\ TryWrite(v, field) =>
                    /\ OtherNibbleKept(r, field)
                    /\ Nibble(Byte(r), field) % 16 = 0 => ret' = "Ok"
        /\ \A h \in Live :
            /\ Ref_drop(h) => OtherNibbleKept(h.state, h.value.field)
            /\ RefMut_drop(h) =>
                    /\ OtherNibbleKept(h.state, h.value.field)
                    /\ WriteBit(Byte(h.state), h.value.field) = 1
                    /\ accounts'[h.state].borrow_state
                            = Byte(h.state) - WriteUnit(h.value.field) ]_vars

\* the write handle of lamports was released while three read handles of
\* data were live: the byte went from 0x83 to 0x03
C23_Witness ==
    /\ last.op = "RefMut_drop"
    /\ LiveReads(1, "data") = 3
    /\ LiveWrites(1, "lamports") = 0
    /\ Byte(1) = 3

-----------------------------------------------------------------------------
(* C24: in the states reached from borrow_state = 0 through the checked    *)
(* operations, the 8-bit arithmetic on the byte never wraps and never      *)
(* carries or borrows across a field boundary.  Every step that changes   *)
(* the byte adds or removes one handle and moves the byte, as an integer   *)
(* within 0..255, by exactly the unit of that handle.  A read count is     *)
(* incremented only when it is below 7; a read handle is live, hence       *)
(* dropped, only while its count is at least 1; in both cases the write    *)
(* bit of the sub-state and the other four bits are left alone.            *)

\* the step moved the read count of a sub-state of record r by delta, as an
\* integer and within its three bits, for one read handle more or less
CountMoved(r, field, delta) ==
    LET b == Byte(r)
        c == accounts'[r].borrow_state
    IN  /\ c = b + delta * ReadUnit(field)
        /\ c \in 0 .. 255
        /\ ReadCount(c, field) = ReadCount(b, field) + delta
        /\ ReadCount(b, field) < 7 \/ delta = -1
        /\ ReadCount(b, field) >= 1 \/ delta = 1
        /\ WriteBit(c, field) = WriteBit(b, field)
        /\ Nibble(c, Other(field)) = Nibble(b, Other(field))
        /\ HandlesOn(handles', "Ref", r, field) = LiveReads(r, field) + delta

\* the step set or cleared the write bit of a sub-state of record r, for one
\* write handle more or less
WriteMoved(r, field, delta) ==
    LET b == Byte(r)
        c == accounts'[r].borrow_state
    IN  /\ c = b + delta * WriteUnit(field)
        /\ c \in 0 .. 255
        /\ Nibble(c, Other(field)) = Nibble(b, Other(field))
        /\ HandlesOn(handles', "RefMut", r, field) = LiveWrites(r, field) + delta

C24_NoWrapNoCarry ==
    /\ [](\A h \in Live :
            h.kind = "Ref" => ReadCount(Byte(h.state), h.value.field) >= 1)
    /\ [][\A r \in Records :
            \/ accounts'[r].borrow_state = Byte(r)
            \/ \E field \in Fields, delta \in {-1, 1} :
                    \/ CountMoved(r, field, delta)
                    \/ WriteMoved(r, field, delta)]_vars

\* the seventh read handle of lamports was acquired: the count went from 6
\* to 7 and the byte from 0x60 to 0x70, the write bit above it still clear
C24_Witness ==
    /\ chain.phase = "live"
    /\ chain.pre = 96
    /\ chain.cur.kind = "Ref"
    /\ chain.cur.value.field = "lamports"
    /\ ret = "Ok"
    /\ Byte(1) = 112
    /\ LiveReads(1, "lamports") = 7

-----------------------------------------------------------------------------
(* C25: realloc releases the write handle of the data it takes, on each of *)
(* its exits: the equal-length return, the InvalidRealloc return and the   *)
(* Ok return.  After each the byte is what it was before the call, the     *)
(* data sub-state 0 and the lamports sub-state untouched, no handle has    *)
(* been added, and a try_borrow_data or try_borrow_mut_data that follows   *)
(* succeeds.                                                               *)

C25_ReallocReleasesItsHandle ==
    /\ [][ (last'.op = "realloc" /\ ret' \in {"Ok", "InvalidRealloc"}) =>
            \A r \in Records :
                /\ accounts'[r].borrow_state = Byte(r)
                /\ Nibble(accounts'[r].borrow_state, "data") % 16 = 0
                /\ handles' = handles ]_vars
    /\ []( (last.op = "realloc" /\ ret \in {"Ok", "InvalidRealloc"}) =>
            \A v \in Views :
                /\ TryCanReturn(v, "Ref", "data", "Ok")
                /\ TryCanReturn(v, "RefMut", "data", "Ok")
                /\ ~TryCanReturn(v, "Ref", "data", "AccountBorrowFailed")
                /\ ~TryCanReturn(v, "RefMut", "data", "AccountBorrowFailed") )

\* realloc returned on its equal-length exit (new_len = data_len = 1) while
\* a write handle of lamports was live: the byte is 0x80 as before
C25_Witness ==
    /\ last.op = "realloc"
    /\ last.args.new_len = last.args.current_len
    /\ ret = "Ok"
    /\ LiveWrites(1, "lamports") = 1
    /\ Byte(1) = 128

-----------------------------------------------------------------------------
(* C26, as stated: a zero-initialising realloc never re-clears a byte that *)
(* the host zeroed: with zero_init set it writes no byte at an index at or *)
(* above the length the record was serialized with, unless the program has *)
(* written that byte or has exposed it and shrunk past it since entry.     *)
(* A byte is written by the program only while it is within data_len, so   *)
(* the bytes written or exposed are those below the greatest data_len the  *)
(* record has had.                                                         *)

\* byte i of record r was within data_len at some time since entry
Touched(r, i) == i < exposed[r]

C26_AsStated ==
    [][(last'.op = "realloc" /\ last'.args.zero_init) =>
          \A i \in last'.args.zeroed :
             i >= serialized[1] => Touched(1, i)]_vars

(* C26: a zero-initialising realloc that succeeds with new_len above the   *)
(* pre-call length c writes exactly the bytes at the indices in            *)
(* [c, new_len) and no other byte; it writes every byte of that span,      *)
(* whether or not the program has written or exposed it since entry, the   *)
(* bytes that the host zeroed and nothing has touched included.  Any other *)
(* realloc writes no byte.                                                 *)
C26_ZeroInitWritesTheWholeSpan ==
    [][last'.op = "realloc" =>
          LET c == accounts[1].data_len
              new_len == last'.args.new_len
              grown == /\ last'.args.zero_init
                       /\ ret' = "Ok"
                       /\ new_len > c
                       /\ accounts'[1].data_len = new_len
          IN  /\ grown => last'.args.zeroed
                            = {i \in DataAddrs : c <= i /\ i < new_len}
              /\ ~grown => last'.args.zeroed = {}
              /\ \A i \in DataAddrs :
                    /\ i \in last'.args.zeroed => accounts'[1].data[i] = 0
                    /\ i \notin last'.args.zeroed
                            => accounts'[1].data[i] = accounts[1].data[i]]_vars

\* the first realloc of a record serialized with 1 byte grew it to 2 with
\* zero_init: byte 1, zeroed by the host and never within data_len before,
\* was written
C26_Witness ==
    /\ last.op = "realloc"
    /\ ret = "Ok"
    /\ last.args.zero_init
    /\ last.args.length = U32(0, 0)
    /\ serialized[1] = 1
    /\ last.args.current_len = 1
    /\ last.args.new_len = 2
    /\ last.args.zeroed = {1}
    /\ exposed[1] = 2

-----------------------------------------------------------------------------
(* C27: realloc with zero_init = false never modifies a data byte, and a   *)
(* realloc to a smaller length modifies no data byte whatever zero_init    *)
(* is.  Hence, after a shrink from a to b, growing back to a leaves in     *)
(* [b, a) the bytes that were there before the shrink (stale) when         *)
(* zero_init is false, and leaves them all zero when zero_init is true.    *)

\* the call before this one was a realloc that shrank record 1 from a to b
ShrunkBefore(a, b) ==
    /\ last.op = "realloc"
    /\ ret = "Ok"
    /\ last.args.current_len = a
    /\ last.args.new_len = b
    /\ b < a
    /\ accounts[1].data_len = b

C27_NoZeroInitKeepsBytes ==
    [][last'.op = "realloc" =>
          LET c == accounts[1].data_len
              new_len == last'.args.new_len
          IN  /\ ~last'.args.zero_init => accounts'[1].data = accounts[1].data
              /\ new_len < c => accounts'[1].data = accounts[1].data
              /\ (ret' = "Ok" /\ ShrunkBefore(new_len, c)) =>
                    \A i \in DataAddrs :
                        (c <= i /\ i < new_len) =>
                            accounts'[1].data[i] = IF last'.args.zero_init THEN 0
                                                   ELSE last.args.data[i]]_vars

\* a record serialized with 10241 bytes, all 1, was shrunk to 1 and has
\* been grown back to 10241 without zero_init: bytes 1 and 10240 are still 1
C27_Witness ==
    /\ last.op = "realloc"
    /\ ret = "Ok"
    /\ ~last.args.zero_init
    /\ serialized[1] = 10241
    /\ last.args.current_len = 1
    /\ last.args.new_len = 10241
    /\ accounts[1].data_len = 10241
    /\ accounts[1].data[1] = 1
    /\ accounts[1].data[10240] = 1
    /\ accounts[1].data[10241] = 0

-----------------------------------------------------------------------------
(* C28: a successful realloc changes only data_len, possibly               *)
(* original_data_len, and, with zero_init, the bytes it newly exposes.     *)
(* owner, lamports, key, the three flags and the lamports sub-state of the *)
(* byte are as before, as are the handles and every other record.  And     *)
(* realloc succeeds or not by the data sub-state and the lengths alone:    *)
(* whatever the lamports sub-state holds and whatever is_writable is, it   *)
(* returns Ok exactly when no handle on the data is live and new_len is    *)
(* the current length or at most the original length + 10240.              *)

\* the fields of a record a realloc is not to touch
ReallocFrame == {"key", "owner", "lamports", "is_signer", "is_writable", "executable"}

C28_ReallocFrame ==
    [][last'.op = "realloc" =>
          LET c == accounts[1].data_len
              new_len == last'.args.new_len
          IN  /\ ret' = "Ok" =>
                    /\ \A f \in ReallocFrame : accounts'[1][f] = accounts[1][f]
                    /\ Nibble(accounts'[1].borrow_state, "lamports")
                            = Nibble(Byte(1), "lamports")
                    /\ accounts'[1].data_len = new_len
                    /\ \A i \in DataAddrs :
                          accounts'[1].data[i] # accounts[1].data[i] =>
                                /\ last'.args.zero_init
                                /\ c <= i /\ i < new_len
                    /\ accounts'[2] = accounts[2]
                    /\ handles' = handles
              /\ (ret' = "Ok") <=>
                    /\ ~DataBorrowed(1)
                    /\ \/ new_len = c
                       \/ new_len <= MeasuredFrom(1) + MAX_PERMITTED_DATA_INCREASE]_vars

\* a record that is not writable, with three read handles of lamports live,
\* was grown from 1 byte to 2
C28_Witness ==
    /\ last.op = "realloc"
    /\ ret = "Ok"
    /\ accounts[1].is_writable = 0
    /\ LiveReads(1, "lamports") = 3
    /\ Byte(1) = 48
    /\ last.args.current_len = 1
    /\ accounts[1].data_len = 2

-----------------------------------------------------------------------------
(* close_unchecked, as a call *)

\* mutant: close_unchecked leaves a record whose data is borrowed alone
call_close_unchecked_checked(v) ==
    LET r == View(v).raw
    IN  /\ accounts' = IF check_borrow_mut_data(v) = "Ok"
                       THEN close_unchecked(r) ELSE accounts
        /\ ret' = "Ok"
        /\ UNCHANGED handles
        /\ ObserveCall("close_unchecked", v, r, <<>>)

\* unsafe fn close_unchecked(&self), called by the program
call_close_unchecked(v) ==
    LET r == View(v).raw
    IN  /\ accounts' = close_unchecked(r)
        /\ ret' = "Ok"
        /\ UNCHANGED handles
        /\ ObserveCall("close_unchecked", v, r, <<>>)

NextClose ==
    \/ \E v \in Views : call_close_unchecked(v)
    \/ \E v \in Views : close(v)
    \/ \E v \in Views, new_owner \in NewOwners : assign(v, new_owner)
    \/ \E v \in Views : try_borrow_lamports(v)
    \/ \E v \in Views : try_borrow_mut_lamports(v)
    \/ \E v \in Views : try_borrow_data(v)
    \/ \E v \in Views : try_borrow_mut_data(v)
    \/ \E h \in Live : Ref_drop(h)
    \/ \E h \in Live : RefMut_drop(h)

SpecClose == InitResize /\ [][NextClose]_vars

-----------------------------------------------------------------------------
(* C29: close_unchecked makes no borrow check.  In every borrow state,     *)
(* with handles on the data or on the lamports live or not, it can be      *)
(* called, sets owner to the all-zero address, lamports to 0 and data_len  *)
(* to 0, and changes nothing else: not the byte, the data, the key, the    *)
(* flags or original_data_len, no handle and no other record.  close, in a *)
(* state with no handle on the data live, has exactly that effect.         *)

\* the step zeroed owner, lamports and data_len of record r, and only them
Closed(r) ==
    /\ accounts'[r].owner = 0
    /\ accounts'[r].lamports = 0
    /\ accounts'[r].data_len = 0
    /\ \A f \in DOMAIN accounts[r] \ {"owner", "lamports", "data_len"} :
            accounts'[r][f] = accounts[r][f]
    /\ \A q \in Records \ {r} : accounts'[q] = accounts[q]
    /\ handles' = handles

C29_CloseUncheckedIgnoresBorrows ==
    /\ [](\A v \in Views : ENABLED call_close_unchecked(v))
    /\ [][ /\ last'.op = "close_unchecked" => Closed(1)
           /\ (last'.op = "close" /\ ~DataBorrowed(1)) =>
                    /\ ret' = "Ok"
                    /\ Closed(1) ]_vars

\* close_unchecked has zeroed owner, lamports and data_len of a record
\* while a write handle of its data and a read handle of its lamports were
\* live: the byte is still 0x18
C29_Witness ==
    /\ last.op = "close_unchecked"
    /\ LiveWrites(1, "data") = 1
    /\ LiveReads(1, "lamports") = 1
    /\ Byte(1) = 24
    /\ accounts[1].owner = 0
    /\ accounts[1].lamports = 0
    /\ accounts[1].data_len = 0

-----------------------------------------------------------------------------
(* C30: a denied acquisition is never permanent.  After a try_borrow_*     *)
(* call has failed with AccountBorrowFailed, as soon as dropping handles   *)
(* has removed the conflict on its sub-state (no handle of the sub-state   *)
(* live for a write request; no write handle and fewer than seven read     *)
(* handles live for a read request), the same call succeeds and cannot     *)
(* fail; nothing but the drops is needed in between.                       *)

\* the kind of handle and the field a try_borrow_* call asks for
KindOf(op) ==
    IF op \in {"try_borrow_lamports", "try_borrow_data"} THEN "Ref" ELSE "RefMut"
FieldOf(op) ==
    IF op \in {"try_borrow_lamports", "try_borrow_mut_lamports"}
    THEN "lamports" ELSE "data"

\* no live handle of record r conflicts with the request op
ConflictsGone(r, op) ==
    IF KindOf(op) = "RefMut"
    THEN LiveReads(r, FieldOf(op)) + LiveWrites(r, FieldOf(op)) = 0
    ELSE LiveWrites(r, FieldOf(op)) = 0 /\ LiveReads(r, FieldOf(op)) < 7

C30_DenialIsNotPermanent ==
    /\ []( (chain.phase = "denied" /\ ConflictsGone(1, chain.via)) =>
            \A v \in Views :
                /\ ~TryCanReturn(v, KindOf(chain.via), FieldOf(chain.via),
                                 "AccountBorrowFailed")
                /\ BagCardinality(handles) < MaxHandles =>
                      TryCanReturn(v, KindOf(chain.via), FieldOf(chain.via), "Ok") )
    /\ [][ (/\ chain.phase = "denied"
            /\ ConflictsGone(1, chain.via)
            /\ last'.op = chain.via) =>
                /\ ret' = "Ok"
                /\ chain'.phase = "retried" ]_vars

\* try_borrow_data was refused with seven read handles of the data live,
\* one of them was dropped, and the same call has now returned Ok: seven
\* are live again
C30_Witness ==
    /\ chain.phase = "retried"
    /\ chain.via = "try_borrow_data"
    /\ last.op = "try_borrow_data"
    /\ ret = "Ok"
    /\ LiveReads(1, "data") = 7
    /\ Byte(1) = 7

-----------------------------------------------------------------------------
(* The layout of the byte, as the tests and the updates of the code use it *)

\* the write flag of a sub-state, as check_borrow_lamports and
\* check_borrow_data test it: b & 0b1000_0000, b & 0b0000_1000
WriteFlagBits(b, field) ==
    IF field = "lamports" THEN BitAnd(b, 128) ELSE BitAnd(b, 8)

\* mutant: the read count of data is taken with the mask of the whole nibble
ReadCountBits_nibble(b, field) ==
    IF field = "lamports" THEN BitAnd(b, 112) ELSE BitAnd(b, 15)

\* the read count of a sub-state, as the same checks test it:
\* b & 0b0111_0000, b & 0b0111
ReadCountBits(b, field) ==
    IF field = "lamports" THEN BitAnd(b, 112) ELSE BitAnd(b, 7)

\* the shift of a sub-state
ShiftOf(field) == IF field = "lamports" THEN LAMPORTS_SHIFT ELSE DATA_SHIFT

\* the four components of the byte: per sub-state the write flag (0 or 1)
\* and the number of reads
Split(b) ==
    [field \in {"lamports", "data"} |->
        [write |-> WriteFlagBits(b, field) \div (8 * 2 ^ ShiftOf(field)),
         reads |-> ReadCountBits(b, field) \div (2 ^ ShiftOf(field))]]

\* the byte built as the acquisitions build it: 1 << shift added per read,
\* the write bit of the sub-state (0b1000_0000, 0b0000_1000) set per write
Reencode(s) ==
    s["lamports"].write * 128 + s["lamports"].reads * (2 ^ LAMPORTS_SHIFT)
    + s["data"].write * 8 + s["data"].reads * (2 ^ DATA_SHIFT)

-----------------------------------------------------------------------------
(* C31: for every value b of the borrow-state byte, splitting b into the   *)
(* lamports sub-state (write flag bit 7, read count bits 4-6) and the data *)
(* sub-state (write flag bit 3, read count bits 0-2) and re-encoding the   *)
(* four components gives b again; the flags are 0 or 1 and the counts      *)
(* within 0..7; the four groups of bits cover the byte, and no bit belongs *)
(* to two of them.                                                         *)

\* the four groups of bits of the byte
BitGroups ==
    {WriteFlagBits(255, "lamports"), ReadCountBits(255, "lamports"),
     WriteFlagBits(255, "data"), ReadCountBits(255, "data")}

C31_SplitThenEncodeIsIdentity ==
    /\ \A r \in Records :
          LET b == Byte(r)
              s == Split(b)
          IN  /\ Reencode(s) = b
              /\ \A field \in Fields :
                    /\ s[field].write \in {0, 1}
                    /\ s[field].reads \in 0 .. 7
                    /\ s[field].write = WriteBit(b, field)
                    /\ s[field].reads = ReadCount(b, field)
    /\ Cardinality(BitGroups) = 4
    /\ \A g \in BitGroups, h \in BitGroups : g # h => BitAnd(g, h) = 0
    /\ BitAnd(WriteFlagBits(255, "lamports") + ReadCountBits(255, "lamports")
              + WriteFlagBits(255, "data") + ReadCountBits(255, "data"), 255) = 255

\* the byte 0xB5: lamports write flag with 3 reads, data with 5 reads and
\* no write flag
C31_Witness ==
    /\ Byte(1) = 181
    /\ Split(Byte(1))["lamports"] = [write |-> 1, reads |-> 3]
    /\ Split(Byte(1))["data"] = [write |-> 0, reads |-> 5]
    /\ Reencode(Split(Byte(1))) = 181

-----------------------------------------------------------------------------
(* Reassigning the owner, among borrows and a close *)

NextAssign ==
    \/ \E v \in Views, new_owner \in NewOwners : assign(v, new_owner)
    \/ \E v \in Views, program \in Programs : is_owned_by(v, program)
    \/ \E v \in Views : close(v)
    \/ \E v \in Views : try_borrow_lamports(v)
    \/ \E v \in Views : try_borrow_mut_lamports(v)
    \/ \E v \in Views : try_borrow_data(v)
    \/ \E v \in Views : try_borrow_mut_data(v)
    \/ \E h \in Live : Ref_drop(h)
    \/ \E h \in Live : RefMut_drop(h)

SpecAssign == InitZero /\ [][NextAssign]_vars

-----------------------------------------------------------------------------
(* C32: assign(new_owner) overwrites the owner field and nothing else.     *)
(* Afterwards is_owned_by(new_owner) answers true, and lamports, data_len, *)
(* original_data_len, key, the flags, the data bytes and the borrow-state  *)
(* byte are as before, as are the handles and the other records.  assign   *)
(* consults no borrow state: it can be called, and takes effect, in every  *)
(* state, with handles on data or lamports live or not.                    *)

C32_AssignOnlyOwner ==
    /\ [](\A v \in Views, new_owner \in NewOwners : ENABLED assign(v, new_owner))
    /\ [](last.op = "assign" =>
            \A v \in Views :
                /\ ENABLED (is_owned_by(v, last.args[1]) /\ ret' = TRUE)
                /\ ~ENABLED (is_owned_by(v, last.args[1]) /\ ret' = FALSE))
    /\ [][last'.op = "assign" =>
            /\ accounts'[1].owner = last'.args[1]
            /\ \A f \in DOMAIN accounts[1] \ {"owner"} :
                    accounts'[1][f] = accounts[1][f]
            /\ \A q \in Records \ {1} : accounts'[q] = accounts[q]
            /\ handles' = handles]_vars

\* the owner of a record was reassigned from 1 to 2 while a write handle of
\* its data and a read handle of its lamports were live
C32_Witness ==
    /\ last.op = "assign"
    /\ last.args[1] = 2
    /\ accounts[1].owner = 2
    /\ accounts[1].lamports = 1
    /\ LiveWrites(1, "data") = 1
    /\ LiveReads(1, "lamports") = 1
    /\ Byte(1) = 24

-----------------------------------------------------------------------------
(* Malformed account lists (instruction-view/src/cpi.rs) *)

\* a list of one account more than slice_invoke_signed accepts, and the
\* metas of an instruction that names every one of them
LongInfos == [i \in 1..(MAX_INSTRUCTION_ACCOUNTS + 1) |-> "A"]

LongMetas == [i \in 1..(MAX_INSTRUCTION_ACCOUNTS + 1) |-> AccountMeta(1, FALSE)]

\* the calls of NextCpi, and those with the long lists: the long list of
\* accounts goes to slice_invoke_signed, whose limit it passes
NextLists ==
    \/ \E instruction \in InstructionAccounts \cup {LongMetas},
          account_infos \in AccountInfos :
            invoke_signed(instruction, account_infos)
    \/ \E instruction \in InstructionAccounts \cup {LongMetas},
          account_infos \in AccountInfos \cup {LongInfos} :
            slice_invoke_signed(instruction, account_infos)
    \/ \E v \in Views : try_borrow_lamports(v)
    \/ \E v \in Views : try_borrow_mut_lamports(v)
    \/ \E v \in Views : try_borrow_data(v)
    \/ \E v \in Views : try_borrow_mut_data(v)
    \/ \E h \in Live : Ref_drop(h)
    \/ \E h \in Live : RefMut_drop(h)

SpecLists == InitCpi /\ [][NextLists]_vars

\* the key of the account at a position differs from the address of its meta
KeyDiffers(instruction, account_infos, i) ==
    accounts[View(account_infos[i]).raw].key # instruction[i].address

\* the positions whose account fails the key check or its pair of checks
Failing(instruction, account_infos) ==
    {i \in DOMAIN account_infos :
        \/ KeyDiffers(instruction, account_infos, i)
        \/ ~PassesChecks(account_infos[i], instruction[i])}

\* the least position of a non-empty set of positions
First(positions) == CHOOSE i \in positions : \A j \in positions : i <= j

\* C33: invoke_signed and slice_invoke_signed reject a malformed account list
\* before any outbound call.  An instruction with fewer metas than accounts
\* were supplied gets NotEnoughAccountKeys; past that, slice_invoke_signed
\* answers InvalidArgument to more than MAX_INSTRUCTION_ACCOUNTS accounts;
\* past that, the accounts are examined in order and the first failing one
\* decides the error: InvalidArgument if its key differs from the address of
\* the meta at its position (whatever its borrow state, the key check coming
\* first), AccountBorrowFailed otherwise.  No rejected call issues an
\* outbound call.
C33_MalformedListsRejectedInOrder ==
    [][ last'.op \in {"invoke_signed", "slice_invoke_signed"} =>
            LET instruction == last'.args[1]
                account_infos == last'.args[2]
                short == Len(instruction) < Len(account_infos)
                long == /\ last'.op = "slice_invoke_signed"
                        /\ Len(account_infos) > MAX_INSTRUCTION_ACCOUNTS
            IN  /\ short => ret' = "NotEnoughAccountKeys"
                /\ (~short /\ long) => ret' = "InvalidArgument"
                /\ (~short /\ ~long) =>
                        LET failing == Failing(instruction, account_infos)
                        IN  failing # {} =>
                                ret' = IF KeyDiffers(instruction, account_infos,
                                                     First(failing))
                                       THEN "InvalidArgument"
                                       ELSE "AccountBorrowFailed"
                /\ ret' # "Ok" => outbound' = outbound ]_vars

\* an account was refused for its key while a live write handle of its data
\* would also have failed the checks its meta asks for, and no outbound call
\* was issued
C33_Witness ==
    /\ last.op \in {"invoke_signed", "slice_invoke_signed"}
    /\ last.args[1] = <<AccountMeta(2, FALSE)>>
    /\ last.args[2] = <<"A">>
    /\ ret = "InvalidArgument"
    /\ LiveWrites(1, "data") = 1
    /\ outbound = <<>>

-----------------------------------------------------------------------------
(* C34: in every state reachable from entry through realloc and close, in  *)
(* any order and whether or not the original length was memoized before,   *)
(* the data_len of a record is at most the data length it had at entry     *)
(* plus MAX_PERMITTED_DATA_INCREASE.                                       *)

C34_NeverPastEntryPlusIncrease ==
    \A r \in Records :
        accounts[r].data_len - serialized[r] <= MAX_PERMITTED_DATA_INCREASE

\* a record that entered with 1 byte was grown by realloc to exactly its
\* entry length plus the permitted increase
C34_Witness ==
    /\ last.op = "realloc"
    /\ ret = "Ok"
    /\ serialized[1] = 1
    /\ StoredLen(1) = 1
    /\ accounts[1].data_len = 1 + MAX_PERMITTED_DATA_INCREASE

-----------------------------------------------------------------------------
(* C35: the outcome of close depends on the data nibble of the byte alone. *)
(* close succeeds exactly when the data nibble is 0 and fails with         *)
(* AccountBorrowFailed otherwise, whatever the lamports nibble; a close    *)
(* that succeeds zeroes the lamports field also while a read or a write    *)
(* handle on the lamports is live, and every close leaves the lamports     *)
(* nibble, and the handles, as they were.                                  *)

C35_CloseReadsDataNibbleOnly ==
    [][ last'.op = "close" =>
            /\ ret' = IF Nibble(Byte(1), "data") = 0
                      THEN "Ok" ELSE "AccountBorrowFailed"
            /\ ret' = "Ok" => accounts'[1].lamports = 0
            /\ Nibble(accounts'[1].borrow_state, "lamports")
                    = Nibble(Byte(1), "lamports")
            /\ handles' = handles ]_vars

\* close succeeded and zeroed the lamports while a write handle on the
\* lamports was live: the byte is still 0x80
C35_Witness ==
    /\ last.op = "close"
    /\ ret = "Ok"
    /\ LiveWrites(1, "lamports") = 1
    /\ Byte(1) = 128
    /\ accounts[1].lamports = 0
    /\ accounts[1].data_len = 0

-----------------------------------------------------------------------------
(* C36: when the program uses the checked operations only (try_borrow_data,*)
(* try_borrow_mut_data, realloc, close, assign and the drops; no unchecked *)
(* operation, no map), every live data handle views exactly the data_len   *)
(* bytes of its record, from the first byte on: no step changes data_len   *)
(* while a handle on the data is live.                                     *)

C36_DataHandlesViewDataLen ==
    /\ [](\A h \in Live :
              h.value.field = "data" =>
                  /\ h.value.off = 0
                  /\ h.value.len = accounts[h.value.rec].data_len)
    /\ [][\A r \in Records :
              DataBorrowed(r) => accounts'[r].data_len = accounts[r].data_len]_vars

\* a record that entered with 1 byte was grown to 2 bytes and then borrowed
\* for writing: the handle views 2 bytes, and a realloc was refused under it
C36_Witness ==
    /\ last.op = "realloc"
    /\ ret = "AccountBorrowFailed"
    /\ serialized[1] = 1
    /\ accounts[1].data_len = 2
    /\ LiveWrites(1, "data") = 1
    /\ \E h \in Live : h.kind = "RefMut" /\ h.value.off = 0 /\ h.value.len = 2

-----------------------------------------------------------------------------
(* C37: releases commute.  In every state reachable from borrow_state = 0, *)
(* for any two live handles of a record (two read handles, or a read       *)
(* handle and the write handle of the other sub-state), dropping one and   *)
(* then the other leaves the byte that dropping them in the other order    *)
(* leaves, so that a set of live handles dropped in any order ends in the  *)
(* same byte; and the byte is the one its live handles alone determine,    *)
(* whatever the order in which handles were acquired and dropped before.   *)

\* the byte the drop of handle h leaves of byte b
Released(b, h) ==
    IF h.kind = "Ref" THEN Ref_released(b, h) ELSE RefMut_released(b, h)

\* two handles that are live together: distinct, or one held twice
LiveTogether(h, g) == h # g \/ handles[h] >= 2

C37_ReleasesCommute ==
    /\ \A h, g \in Live :
            (LiveTogether(h, g) /\ h.state = g.state) =>
                Released(Released(Byte(h.state), h), g)
                    = Released(Released(Byte(g.state), g), h)
    /\ \A r \in Records :
            Byte(r) = 128 * LiveWrites(r, "lamports") + 16 * LiveReads(r, "lamports")
                        + 8 * LiveWrites(r, "data") + LiveReads(r, "data")

\* a handle was dropped, and a write handle of the lamports and two read
\* handles of the data, one of them transformed, are left to be dropped
C37_Witness ==
    /\ chain.phase = "done"
    /\ LiveWrites(1, "lamports") = 1
    /\ LiveReads(1, "data") = 2
    /\ \E h, g \in Live : h.kind = "Ref" /\ g.kind = "Ref" /\ h # g
    /\ Byte(1) = 130

-----------------------------------------------------------------------------
(* The sentinel of original_data_len *)

\* resizing and closing, with the write handle that can be in the way
NextSentinel ==
    \/ \E v \in Views, new_len \in NewLens, zero_init \in BOOLEAN :
            realloc(v, new_len, zero_init)
    \/ \E v \in Views : close(v)
    \/ \E v \in Views : try_borrow_mut_data(v)
    \/ \E h \in Live : RefMut_drop(h)

SpecSentinel == InitZero /\ [][NextSentinel]_vars

\* lengths below 2^31: the least, the entry lengths of the model, the greatest
SentinelLens == {0} \cup HostLens \cup {GET_LEN_MASK.low}

=============================================================================
